---------------------------- MODULE Spec2Model ----------------------------
(***************************************************************************)
(* A model of the PEC compliance filter (ai-agent/src/compliance-filter.ts) *)
(* and of its audit logger (ai-agent/src/audit-logger.ts).                  *)
(*                                                                          *)
(* Strings.  Location and jurisdiction codes are sequences of one-letter    *)
(* strings, so that toUpperCase is computed letter by letter.  Every other  *)
(* string (a sector tag, a certification, a transfer mechanism, a risk      *)
(* class) is only ever compared for equality by the code and is an atomic   *)
(* TLA+ string.  A message built from a template literal is the sequence of *)
(* its pieces: the literal parts of the template and the interpolated       *)
(* values, in order.                                                        *)
(*                                                                          *)
(* A value that may be undefined/null in the code is <<>> when undefined    *)
(* and <<v>> when it is v.                                                  *)
(***************************************************************************)
EXTENDS Naturals, Sequences, FiniteSets, TLC

VARIABLES
  loggers,            \* every PecAuditLogger object constructed so far
  globalAuditLogger,  \* index in loggers of the current one, 0 for null
  call,               \* the last call made by the caller and what it returned
  pc                  \* "ready" while a prepared call is pending, else "idle"

vars == <<loggers, globalAuditLogger, call, pc>>

----------------------------------------------------------------------------
(* undefined / null *)

Undefined == <<>>
Def(v) == <<v>>
IsDefined(o) == o # <<>>
Val(o) == o[1]

----------------------------------------------------------------------------
(* Strings *)

Range(list) == {list[i] : i \in DOMAIN list}

LowerLetters ==
  <<"a","b","c","d","e","f","g","h","i","j","k","l","m",
    "n","o","p","q","r","s","t","u","v","w","x","y","z">>
UpperLetters ==
  <<"A","B","C","D","E","F","G","H","I","J","K","L","M",
    "N","O","P","Q","R","S","T","U","V","W","X","Y","Z">>

\* the upper-case letter of each lower-case letter
UpperOf ==
  [c \in Range(LowerLetters) |->
     UpperLetters[CHOOSE i \in DOMAIN LowerLetters : LowerLetters[i] = c]]

UpperChar(c) == IF c \in DOMAIN UpperOf THEN UpperOf[c] ELSE c

\* String.prototype.toUpperCase on a code
ToUpperCase(s) == [i \in DOMAIN s |-> UpperChar(s[i])]

\* a two-letter code
CC(a, b) == <<a, b>>

RECURSIVE Join(_, _)
\* Array.prototype.join for a list of atomic strings
Join(list, sep) ==
  IF Len(list) = 0 THEN <<>>
  ELSE IF Len(list) = 1 THEN <<list[1]>>
  ELSE <<list[1], sep>> \o Join(Tail(list), sep)

\* Array.prototype.includes
Includes(list, x) == \E i \in DOMAIN list : list[i] = x

RECURSIVE JoinText(_, _)
\* Array.prototype.join for a list of texts, each a sequence of pieces
JoinText(list, sep) ==
  IF Len(list) = 0 THEN <<>>
  ELSE IF Len(list) = 1 THEN list[1]
  ELSE list[1] \o <<sep>> \o JoinText(Tail(list), sep)

\* a text of no characters (the falsy string of `text || alternative`)
IsEmptyText(text) == \A i \in DOMAIN text : text[i] = ""

\* `text || alternative`
OrElse(text, alternative) == IF IsEmptyText(text) THEN <<alternative>> ELSE text

\* a boolean inside a template literal
Bool(b) == IF b THEN "true" ELSE "false"

\* the substrings buildEvaluationTrace searches the reasons for
TraceNeedles ==
  {"Processing location", "risk classification", "conformity assessment",
   "transfer mechanism", "special categories", "certification",
   "prohibited sector"}

\* for each piece of text that holds one of the substrings, the substrings
\* found in it, letter case respected; no other piece of the model holds one,
\* and none runs across two pieces: a substring is made of letters and
\* single blanks, and the pieces around a quoted value begin or end with a
\* quote, a bracket or a colon
NeedlesIn ==
  [piece \in
     {"Processing location '",
      "Tool risk classification '",
      "Tool has not undergone conformity assessment",
      "Tool declares no GDPR transfer mechanisms but context requires one of: ",
      "Tool transfer mechanisms [",
      "Tool processes GDPR special categories (Art 9) but deployment context prohibits this",
      "Tool lacks required certifications. Required one of: ",
      "Tool lacks preferred certifications: ",
      "Tool is suitable for prohibited sector: '",
      "certification_services"} |->
     CASE piece = "Processing location '" -> {"Processing location"}
       [] piece = "Tool risk classification '" -> {"risk classification"}
       [] piece = "Tool has not undergone conformity assessment" ->
            {"conformity assessment"}
       [] piece \in {"Tool declares no GDPR transfer mechanisms but context requires one of: ",
                     "Tool transfer mechanisms ["} -> {"transfer mechanism"}
       [] piece = "Tool processes GDPR special categories (Art 9) but deployment context prohibits this" ->
            {"special categories"}
       [] piece = "Tool is suitable for prohibited sector: '" -> {"prohibited sector"}
       [] piece \in {"Tool lacks required certifications. Required one of: ",
                     "Tool lacks preferred certifications: ",
                     "certification_services"} -> {"certification"}]

\* String.prototype.includes(needle) on a text
StringIncludes(text, needle) ==
  \E i \in DOMAIN text :
    text[i] \in DOMAIN NeedlesIn /\ needle \in NeedlesIn[text[i]]

----------------------------------------------------------------------------
(* Jurisdiction resolver *)

EU_COUNTRIES ==
  <<CC("D","E"), CC("F","R"), CC("I","E"), CC("N","L"), CC("B","E"),
    CC("A","T"), CC("E","S"), CC("I","T"), CC("P","T"), CC("P","L"),
    CC("S","E"), CC("D","K"), CC("F","I"), CC("C","Z"), CC("R","O"),
    CC("H","U"), CC("B","G"), CC("G","R"), CC("S","K"), CC("H","R"),
    CC("S","I"), CC("L","T"), CC("L","V"), CC("E","E"), CC("C","Y"),
    CC("L","U"), CC("M","T")>>
EEA_COUNTRIES == EU_COUNTRIES \o <<CC("N","O"), CC("I","S"), CC("L","I")>>
ADEQUACY_COUNTRIES ==
  <<CC("G","B"), CC("C","H"), CC("J","P"), CC("K","R"), CC("C","A"),
    CC("N","Z"), CC("I","L"), CC("A","R"), CC("U","Y")>>

EU == <<"E","U">>
EEA == <<"E","E","A">>
ADEQUACY == <<"A","D","E","Q","U","A","C","Y">>

\* expandJurisdiction comparing the code as written; ExpansionOfAggregates
\* tells it from expandJurisdiction
expandJurisdictionExact(code) ==
  LET upperCode == ToUpperCase(code) IN
  IF code = EU THEN EU_COUNTRIES
  ELSE IF code = EEA THEN EEA_COUNTRIES
  ELSE IF code = ADEQUACY THEN EEA_COUNTRIES \o ADEQUACY_COUNTRIES
  ELSE <<upperCode>>

expandJurisdiction(code) ==
  LET upperCode == ToUpperCase(code) IN
  IF upperCode = EU THEN EU_COUNTRIES
  ELSE IF upperCode = EEA THEN EEA_COUNTRIES
  ELSE IF upperCode = ADEQUACY THEN EEA_COUNTRIES \o ADEQUACY_COUNTRIES
  ELSE <<upperCode>>

\* the Set filled by  list.forEach(c => expandJurisdiction(c).forEach(add))
ExpandAll(list) == UNION {Range(expandJurisdiction(list[i])) : i \in DOMAIN list}

\* isLocationAllowed with an empty required list read as "anywhere";
\* FailClosedLocationRule tells it from isLocationAllowed
isLocationAllowedFailOpen(location, required, prohibited) ==
  LET allowedLocations == ExpandAll(required)
      blockedLocations == ExpandAll(prohibited)
      upperLocation    == ToUpperCase(location)
  IN IF upperLocation \in blockedLocations THEN FALSE
     ELSE (allowedLocations = {} \/ upperLocation \in allowedLocations)

isLocationAllowed(location, required, prohibited) ==
  LET allowedLocations == ExpandAll(required)
      blockedLocations == ExpandAll(prohibited)
      upperLocation    == ToUpperCase(location)
  IN IF upperLocation \in blockedLocations THEN FALSE
     ELSE upperLocation \in allowedLocations

----------------------------------------------------------------------------
(* Rule evaluator.  A ComplianceCheckResult is                             *)
(* [compliant, reasons, warnings]; every check takes the result so far and *)
(* returns the result after it.                                            *)

RISK_LEVELS ==
  [minimal |-> 1, limited |-> 2, gpai |-> 3, high |-> 4,
   gpai_systemic |-> 5, unacceptable |-> 6]

\* RISK_LEVELS[c]: undefined for a key the table does not hold
RiskLevel(c) ==
  IF c \in DOMAIN RISK_LEVELS THEN Def(RISK_LEVELS[c]) ELSE Undefined

\* a > b on numbers, false when either side is undefined (NaN)
GreaterThan(a, b) == IsDefined(a) /\ IsDefined(b) /\ Val(a) > Val(b)

\* truthiness of a string
Truthy(s) == IsDefined(s) /\ Val(s) # ""

emptyResult == [compliant |-> TRUE, reasons |-> <<>>, warnings |-> <<>>]

checkTransferMechanisms(toolMechanisms, requiredMechanisms) ==
  IF ~IsDefined(requiredMechanisms) \/ Len(Val(requiredMechanisms)) = 0
    THEN [valid |-> TRUE, reason |-> Undefined]
  ELSE IF Len(toolMechanisms) = 0
    THEN [valid |-> FALSE,
          reason |-> Def(<<"Tool declares no GDPR transfer mechanisms but context requires one of: ">>
                         \o Join(Val(requiredMechanisms), ", "))]
  ELSE IF ~(\E i \in DOMAIN toolMechanisms :
              Includes(Val(requiredMechanisms), toolMechanisms[i]))
    THEN [valid |-> FALSE,
          reason |-> Def(<<"Tool transfer mechanisms [">>
                         \o Join(toolMechanisms, ", ")
                         \o <<"] do not include any required mechanism: ">>
                         \o Join(Val(requiredMechanisms), ", "))]
  ELSE [valid |-> TRUE, reason |-> Undefined]

checkSpecialCategories(toolProcessesSpecialCategories, contextAllowsSpecialCategories) ==
  IF ~IsDefined(contextAllowsSpecialCategories)
    THEN [valid |-> TRUE, reason |-> Undefined]
  ELSE IF toolProcessesSpecialCategories /\ ~Val(contextAllowsSpecialCategories)
    THEN [valid |-> FALSE,
          reason |-> Def(<<"Tool processes GDPR special categories (Art 9) but deployment context prohibits this">>)]
  ELSE [valid |-> TRUE, reason |-> Undefined]

\* LegacyCheck without the warning of line 120; AbsentMetadataByPolicy tells
\* it from LegacyCheck
LegacyCheckSilentWarn(result, context) ==
  IF context.legacy_servers.policy = "block"
    THEN [result EXCEPT !.compliant = FALSE,
            !.reasons = Append(@, <<"Tool lacks PEC compliance metadata and legacy servers are blocked">>)]
  ELSE result

\* compliance-filter.ts 115-123: no metadata at all
LegacyCheck(result, context) ==
  IF context.legacy_servers.policy = "block"
    THEN [result EXCEPT !.compliant = FALSE,
            !.reasons = Append(@, <<"Tool lacks PEC compliance metadata and legacy servers are blocked">>)]
  ELSE IF context.legacy_servers.policy = "warn"
    THEN [result EXCEPT
            !.warnings = Append(@, <<"Tool lacks PEC compliance metadata (legacy server)">>)]
  ELSE result

\* VersionCheck with the warning that LegacyCheck gives under 'warn';
\* VersionlessByPolicy tells it from VersionCheck
VersionCheckWarns(result, context) ==
  IF context.legacy_servers.policy = "block"
    THEN [result EXCEPT !.compliant = FALSE,
            !.reasons = Append(@, <<"Tool does not declare PEC version">>)]
  ELSE IF context.legacy_servers.policy = "warn"
    THEN [result EXCEPT
            !.warnings = Append(@, <<"Tool does not declare PEC version">>)]
  ELSE result

\* compliance-filter.ts 125-131: metadata without a version string
VersionCheck(result, context) ==
  IF context.legacy_servers.policy = "block"
    THEN [result EXCEPT !.compliant = FALSE,
            !.reasons = Append(@, <<"Tool does not declare PEC version">>)]
  ELSE result

LocationReason(location) ==
  <<"Processing location '">> \o location
    \o <<"' is not allowed under deployment context">>

RECURSIVE LocationLoop(_, _, _)
LocationLoop(result, locations, context) ==
  IF Len(locations) = 0 THEN result
  ELSE LET location == Head(locations)
           next ==
             IF ~isLocationAllowed(location, context.data_residency.required,
                                   context.data_residency.prohibited)
               THEN [result EXCEPT !.compliant = FALSE,
                       !.reasons = Append(@, LocationReason(location))]
               ELSE result
       IN LocationLoop(next, Tail(locations), context)

\* LocationCheck that rejects a tool without declared locations when
\* unknown_handling.processing_locations is 'strict';
\* EmptyLocationsNeverRejected tells it from LocationCheck
LocationCheckStrictUnknown(result, compliance, context) ==
  IF /\ Len(compliance.processing_locations) = 0
     /\ context.unknown_handling.processing_locations = "strict"
    THEN [result EXCEPT !.compliant = FALSE,
            !.reasons = Append(@, <<"Tool declares no processing locations">>)]
    ELSE LocationLoop(result, compliance.processing_locations, context)

\* LocationCheck on the first declared location alone;
\* DocumentedDemoOutcomes tells it from LocationCheck
LocationCheckFirstOnly(result, compliance, context) ==
  LocationLoop(result, SubSeq(compliance.processing_locations, 1, 1), context)

LocationCheck(result, compliance, context) ==
  LocationLoop(result, compliance.processing_locations, context)

RiskReason(classification, maximum_permitted) ==
  <<"Tool risk classification '", classification,
    "' exceeds maximum permitted '", maximum_permitted, "'">>

RiskCheck(result, compliance, context) ==
  LET maxPermittedLevel == RiskLevel(context.risk_classification.maximum_permitted)
      toolRiskLevel     == RiskLevel(compliance.ai_act_status.classification)
  IN IF GreaterThan(toolRiskLevel, maxPermittedLevel)
       THEN [result EXCEPT !.compliant = FALSE,
               !.reasons = Append(@, RiskReason(compliance.ai_act_status.classification,
                                                context.risk_classification.maximum_permitted))]
       ELSE result

ConformityMessage == <<"Tool has not undergone conformity assessment">>

\* ConformityCheck with a warning that also clears compliant;
\* CompliantIffNoReasons tells it from ConformityCheck
ConformityCheckWarningRejects(result, compliance, context) ==
  IF ~compliance.ai_act_status.conformity_assessed
    THEN IF context.unknown_handling.ai_act_status = "strict"
           THEN [result EXCEPT !.compliant = FALSE,
                   !.reasons = Append(@, ConformityMessage)]
           ELSE [result EXCEPT !.compliant = FALSE,
                   !.warnings = Append(@, ConformityMessage)]
    ELSE result

\* ConformityCheck reading 'escalate' as 'strict'; ConformityByHandling tells
\* it from ConformityCheck
ConformityCheckEscalateFatal(result, compliance, context) ==
  IF ~compliance.ai_act_status.conformity_assessed
    THEN IF context.unknown_handling.ai_act_status \in {"strict", "escalate"}
           THEN [result EXCEPT !.compliant = FALSE,
                   !.reasons = Append(@, ConformityMessage)]
           ELSE [result EXCEPT !.warnings = Append(@, ConformityMessage)]
    ELSE result

ConformityCheck(result, compliance, context) ==
  IF ~compliance.ai_act_status.conformity_assessed
    THEN IF context.unknown_handling.ai_act_status = "strict"
           THEN [result EXCEPT !.compliant = FALSE,
                   !.reasons = Append(@, ConformityMessage)]
           ELSE [result EXCEPT !.warnings = Append(@, ConformityMessage)]
    ELSE result

\* compliance-filter.ts 159-177: the two GDPR checks
TransferCheck(result, compliance, context) ==
  IF IsDefined(context.gdpr_requirements)
    THEN LET transferCheck ==
               checkTransferMechanisms(
                 compliance.gdpr.transfer_mechanisms,
                 Val(context.gdpr_requirements).transfer_mechanisms_required)
         IN IF ~transferCheck.valid /\ IsDefined(transferCheck.reason)
                                    /\ Val(transferCheck.reason) # <<>>
              THEN [result EXCEPT !.compliant = FALSE,
                      !.reasons = Append(@, Val(transferCheck.reason))]
              ELSE result
    ELSE result

SpecialCategoriesCheck(result, compliance, context) ==
  IF IsDefined(context.gdpr_requirements)
    THEN LET specialCatCheck ==
               checkSpecialCategories(
                 compliance.gdpr.special_categories_processed,
                 Val(context.gdpr_requirements).special_categories_allowed)
         IN IF ~specialCatCheck.valid /\ IsDefined(specialCatCheck.reason)
                                      /\ Val(specialCatCheck.reason) # <<>>
              THEN [result EXCEPT !.compliant = FALSE,
                      !.reasons = Append(@, Val(specialCatCheck.reason))]
              ELSE result
    ELSE result

SectorReason(prohibited) ==
  <<"Tool is suitable for prohibited sector: '", prohibited, "'">>

RECURSIVE SectorLoop(_, _, _)
SectorLoop(result, prohibitedSectors, compliance) ==
  IF Len(prohibitedSectors) = 0 THEN result
  ELSE LET prohibited == Head(prohibitedSectors)
           next ==
             IF Includes(compliance.suitable_for, prohibited)
               THEN [result EXCEPT !.compliant = FALSE,
                       !.reasons = Append(@, SectorReason(prohibited))]
               ELSE result
       IN SectorLoop(next, Tail(prohibitedSectors), compliance)

SectorCheck(result, compliance, context) ==
  SectorLoop(result, context.sectors.prohibited, compliance)

CertificationReason(required_any) ==
  <<"Tool lacks required certifications. Required one of: ">>
    \o Join(required_any, ", ")

CertificationWarning(required_any) ==
  <<"Tool lacks preferred certifications: ">> \o Join(required_any, ", ")

CertificationCheck(result, compliance, context) ==
  LET required_any == context.certifications.required_any
      hasCertification ==
        \E i \in DOMAIN required_any :
          Includes(compliance.certifications, required_any[i])
  IN IF ~hasCertification /\ Len(required_any) > 0
       THEN IF context.unknown_handling.certifications = "strict"
              THEN [result EXCEPT !.compliant = FALSE,
                      !.reasons = Append(@, CertificationReason(required_any))]
              ELSE [result EXCEPT
                      !.warnings = Append(@, CertificationWarning(required_any))]
       ELSE result

SupplyChainWarning == <<"Tool has not disclosed supply chain dependencies">>

SupplyChainCheck(result, compliance, context) ==
  IF ~compliance.supply_chain_disclosure
    THEN [result EXCEPT !.warnings = Append(@, SupplyChainWarning)]
    ELSE result

\* compliance-filter.ts 115-131: the two early returns, which skip the audit
ReturnsEarly(compliance) ==
  ~IsDefined(compliance) \/ ~Truthy(Val(compliance).pec_version)

\* RuleChecks with the certification check moved before the conformity
\* check; StableOrdering tells it from RuleChecks
RuleChecksCertificationFirst(compliance, context) ==
  LET r1 == LocationCheck(emptyResult, compliance, context)
      r2 == RiskCheck(r1, compliance, context)
      r3 == CertificationCheck(r2, compliance, context)
      r4 == ConformityCheck(r3, compliance, context)
      r5 == TransferCheck(r4, compliance, context)
      r6 == SpecialCategoriesCheck(r5, compliance, context)
      r7 == SectorCheck(r6, compliance, context)
      r8 == SupplyChainCheck(r7, compliance, context)
  IN r8

\* the checks of compliance-filter.ts 133-205, in the order they run
RuleChecks(compliance, context) ==
  LET r1 == LocationCheck(emptyResult, compliance, context)
      r2 == RiskCheck(r1, compliance, context)
      r3 == ConformityCheck(r2, compliance, context)
      r4 == TransferCheck(r3, compliance, context)
      r5 == SpecialCategoriesCheck(r4, compliance, context)
      r6 == SectorCheck(r5, compliance, context)
      r7 == CertificationCheck(r6, compliance, context)
      r8 == SupplyChainCheck(r7, compliance, context)
  IN r8

\* checkCompliance evaluated against the context of the current audit
\* session; SameInputsSameResult tells it from checkCompliance
checkComplianceSessionContext(toolName, compliance, context) ==
  LET sessionContext ==
        IF globalAuditLogger = 0 THEN context
        ELSE loggers[globalAuditLogger].context
  IN IF ~IsDefined(compliance) THEN LegacyCheck(emptyResult, sessionContext)
     ELSE IF ~Truthy(Val(compliance).pec_version)
       THEN VersionCheck(emptyResult, sessionContext)
     ELSE RuleChecks(Val(compliance), sessionContext)

\* the ComplianceCheckResult that checkCompliance returns
checkCompliance(toolName, compliance, context) ==
  IF ~IsDefined(compliance) THEN LegacyCheck(emptyResult, context)
  ELSE IF ~Truthy(Val(compliance).pec_version)
    THEN VersionCheck(emptyResult, context)
  ELSE RuleChecks(Val(compliance), context)

----------------------------------------------------------------------------
(* Audit logger.  A PecAuditLogger is [context, log]; log is               *)
(* [entries, session_id, deployment_context_hash].  randomUUID() is a      *)
(* fresh value: the session id is the number of the logger object.  The    *)
(* wall-clock fields (timestamp, started_at) and the entry's own uuid are  *)
(* read by no operation and are left out.  The reasoning_trace of an entry *)
(* is a sequence of lines, each line a sequence of pieces of text.         *)

hashContext(context) == <<"sha256", context>>

\* new PecAuditLogger(context), as the n-th logger constructed
NewPecAuditLogger(context, n) ==
  [context |-> context,
   log |-> [entries |-> <<>>,
            session_id |-> n,
            deployment_context_hash |-> hashContext(context)]]

createEntry(logger, eventType, toolName, compliance, evaluationResult, reasoningTrace) ==
  [event_type |-> eventType,
   tool_name |-> toolName,
   deployment_context |->
     [governing_law |-> logger.context.governing_law,
      jurisdiction  |-> logger.context.jurisdiction,
      max_risk      |-> logger.context.risk_classification.maximum_permitted],
   compliance_metadata |-> compliance,
   evaluation_result |-> evaluationResult,
   reasoning_trace |-> reasoningTrace,
   session_id |-> logger.log.session_id]

\* result.reasons.filter(r => r.includes(needle))
Violations(result, needle) ==
  SelectSeq(result.reasons, LAMBDA r : StringIncludes(r, needle))

\* the last line of a section: `FAIL: ${violations.join('; ')}` when the
\* filter found a reason, the given line when it found none
Verdict(violations, otherwise) ==
  IF Len(violations) > 0 THEN <<"FAIL: ">> \o JoinText(violations, "; ")
                         ELSE otherwise

\* `${gdpr_requirements?.transfer_mechanisms_required?.join(', ') || 'None specified'}`
RequiredMechanismsText(gdpr) ==
  IF IsDefined(gdpr) /\ IsDefined(Val(gdpr).transfer_mechanisms_required)
    THEN OrElse(Join(Val(Val(gdpr).transfer_mechanisms_required), ", "),
                "None specified")
    ELSE <<"None specified">>

\* `${gdpr_requirements?.special_categories_allowed ?? 'Not specified'}`
SpecialCategoriesAllowedText(gdpr) ==
  IF IsDefined(gdpr) /\ IsDefined(Val(gdpr).special_categories_allowed)
    THEN Bool(Val(Val(gdpr).special_categories_allowed))
    ELSE "Not specified"

\* `${list.length > 0 ? list.join('; ') : 'None'}`
AllOrNone(messages) ==
  IF Len(messages) > 0 THEN JoinText(messages, "; ") ELSE <<"None">>

\* audit-logger.ts 155-171
LocationSection(context, compliance, result) ==
  << <<"--- Location Check ---">>,
     <<"Tool processing locations: ">>
       \o JoinText(compliance.processing_locations, ", "),
     <<"Context required locations: ">>
       \o JoinText(context.data_residency.required, ", "),
     <<"Context prohibited locations: ">>
       \o JoinText(context.data_residency.prohibited, ", "),
     Verdict(Violations(result, "Processing location"),
             <<"PASS: All processing locations acceptable">>) >>

\* audit-logger.ts 172-184
RiskSection(context, compliance, result) ==
  << <<"">>,
     <<"--- Risk Classification Check ---">>,
     <<"Tool classification: ", compliance.ai_act_status.classification>>,
     <<"Maximum permitted: ", context.risk_classification.maximum_permitted>>,
     Verdict(Violations(result, "risk classification"),
             <<"PASS: Risk classification within limits">>) >>

\* audit-logger.ts 186-200
ConformitySection(context, compliance, result) ==
  << <<"">>,
     <<"--- Conformity Assessment Check ---">>,
     <<"Conformity assessed: ", Bool(compliance.ai_act_status.conformity_assessed)>>,
     <<"Notified body: ">> \o OrElse(compliance.ai_act_status.notified_body, "None"),
     Verdict(Violations(result, "conformity assessment"),
             IF ~compliance.ai_act_status.conformity_assessed
               THEN <<"WARNING: Tool has not undergone conformity assessment">>
               ELSE <<"PASS: Conformity assessment complete">>) >>

\* audit-logger.ts 202-214
TransferSection(context, compliance, result) ==
  << <<"">>,
     <<"--- GDPR Transfer Mechanism Check ---">>,
     <<"Tool transfer mechanisms: ">>
       \o OrElse(Join(compliance.gdpr.transfer_mechanisms, ", "), "None"),
     <<"Context required mechanisms: ">>
       \o RequiredMechanismsText(context.gdpr_requirements),
     Verdict(Violations(result, "transfer mechanism"),
             <<"PASS: Transfer mechanisms acceptable">>) >>

\* audit-logger.ts 216-228
SpecialCategoriesSection(context, compliance, result) ==
  << <<"">>,
     <<"--- Special Categories Check ---">>,
     <<"Tool processes special categories: ",
       Bool(compliance.gdpr.special_categories_processed)>>,
     <<"Context allows special categories: ",
       SpecialCategoriesAllowedText(context.gdpr_requirements)>>,
     Verdict(Violations(result, "special categories"),
             <<"PASS: Special categories handling acceptable">>) >>

\* audit-logger.ts 230-242
CertificationSection(context, compliance, result) ==
  << <<"">>,
     <<"--- Certification Check ---">>,
     <<"Tool certifications: ">>
       \o OrElse(Join(compliance.certifications, ", "), "None"),
     <<"Context required (any): ">>
       \o Join(context.certifications.required_any, ", "),
     Verdict(Violations(result, "certification"),
             <<"PASS: Certification requirements met">>) >>

\* audit-logger.ts 244-256
SectorSection(context, compliance, result) ==
  << <<"">>,
     <<"--- Sector Check ---">>,
     <<"Tool suitable for: ">> \o Join(compliance.suitable_for, ", "),
     <<"Context prohibited sectors: ">> \o Join(context.sectors.prohibited, ", "),
     Verdict(Violations(result, "prohibited sector"),
             <<"PASS: No prohibited sector conflicts">>) >>

\* audit-logger.ts 258-264
FinalDecision(result) ==
  << <<"">>,
     <<"--- Final Decision ---">>,
     <<"Compliant: ", Bool(result.compliant)>>,
     <<"Rejection reasons: ">> \o AllOrNone(result.reasons),
     <<"Warnings: ">> \o AllOrNone(result.warnings) >>

\* audit-logger.ts 150-267: the lines of the trace, each a sequence of
\* pieces, section after section
buildEvaluationTrace(logger, toolName, compliance, result) ==
  << <<"Evaluating tool: ", toolName>>,
     <<"PEC version: ",
       IF IsDefined(compliance.pec_version) THEN Val(compliance.pec_version)
                                            ELSE "undefined">>,
     <<"">> >>
    \o LocationSection(logger.context, compliance, result)
    \o RiskSection(logger.context, compliance, result)
    \o ConformitySection(logger.context, compliance, result)
    \o TransferSection(logger.context, compliance, result)
    \o SpecialCategoriesSection(logger.context, compliance, result)
    \o CertificationSection(logger.context, compliance, result)
    \o SectorSection(logger.context, compliance, result)
    \o FinalDecision(result)

\* Push with unshift in place of push; AppendOnlyLog tells it from Push
PushFront(logger, entry) ==
  [logger EXCEPT !.log.entries = <<entry>> \o @]

Push(logger, entry) ==
  [logger EXCEPT !.log.entries = Append(@, entry)]

\* logToolEvaluation with the two event kinds exchanged;
\* EventKindMatchesResult tells it from logToolEvaluation
logToolEvaluationSwapped(logger, toolName, compliance, result) ==
  LET eventType == IF result.compliant THEN "tool_rejected" ELSE "tool_approved"
      reasoningTrace == buildEvaluationTrace(logger, toolName, compliance, result)
  IN Push(logger,
          createEntry(logger, eventType, Def(toolName), Def(compliance),
                      Def(result), reasoningTrace))

logToolEvaluation(logger, toolName, compliance, result) ==
  LET eventType == IF result.compliant THEN "tool_approved" ELSE "tool_rejected"
      reasoningTrace == buildEvaluationTrace(logger, toolName, compliance, result)
  IN Push(logger,
          createEntry(logger, eventType, Def(toolName), Def(compliance),
                      Def(result), reasoningTrace))

logComplianceWarning(logger, toolName, compliance, warnings) ==
  Push(logger,
       createEntry(logger, "compliance_warning", Def(toolName), Def(compliance),
                   Def([compliant |-> TRUE, reasons |-> <<>>, warnings |-> warnings]),
                   << <<"Compliance warnings for tool: ", toolName>> >>
                     \o [i \in DOMAIN warnings |-> <<"Warning: ">> \o warnings[i]]))

logAgentInitialisation(logger, compliantCount, rejectedCount) ==
  Push(logger,
       createEntry(logger, "agent_initialisation", Undefined, Undefined, Undefined,
                   << <<"Agent initialised with deployment context: ",
                        logger.context.governing_law, "/",
                        logger.context.jurisdiction>>,
                      <<"Maximum permitted risk: ",
                        logger.context.risk_classification.maximum_permitted>>,
                      <<"Data residency required: ">>
                        \o JoinText(logger.context.data_residency.required, ", "),
                      <<"Data residency prohibited: ">>
                        \o JoinText(logger.context.data_residency.prohibited, ", "),
                      <<"Tools evaluated: ", ToString(compliantCount + rejectedCount)>>,
                      <<"Tools approved: ", ToString(compliantCount)>>,
                      <<"Tools rejected: ", ToString(rejectedCount)>> >>))

logToolInvocation(logger, toolName, compliance, inputSummary) ==
  Push(logger,
       createEntry(logger, "tool_invocation", Def(toolName), Def(compliance),
                   Def([compliant |-> TRUE, reasons |-> <<>>, warnings |-> <<>>]),
                   << <<"Tool invoked: ", toolName>>,
                      <<"Input summary: ", inputSummary>>,
                      <<"Processing locations: ">>
                        \o JoinText(compliance.processing_locations, ", "),
                      <<"Risk classification: ",
                        compliance.ai_act_status.classification>> >>))

logToolInvocationBlocked(logger, toolName, reason) ==
  Push(logger,
       createEntry(logger, "tool_invocation_blocked", Def(toolName), Undefined,
                   Def([compliant |-> FALSE, reasons |-> <<reason>>,
                        warnings |-> <<>>]),
                   << <<"Tool invocation blocked: ", toolName>>,
                      <<"Reason: ">> \o reason,
                      <<"Action: Request denied to maintain compliance">> >>))

\* AuditEvaluation on the first logger constructed in place of the one
\* getAuditLogger returns; SessionsAreIsolated tells it from AuditEvaluation
AuditEvaluationFirstLogger(lgs, toolName, compliance, result) ==
  IF globalAuditLogger = 0 THEN lgs
  ELSE [lgs EXCEPT ![1] = logToolEvaluation(@, toolName, compliance, result)]

\* compliance-filter.ts 207-214, on the logger objects lgs
AuditEvaluation(lgs, toolName, compliance, result) ==
  IF globalAuditLogger = 0 THEN lgs
  ELSE LET auditLogger == lgs[globalAuditLogger]
           l1 == logToolEvaluation(auditLogger, toolName, compliance, result)
           l2 == IF result.compliant /\ Len(result.warnings) > 0
                   THEN logComplianceWarning(l1, toolName, compliance, result.warnings)
                   ELSE l1
       IN [lgs EXCEPT ![globalAuditLogger] = l2]

\* one call of checkCompliance: what it returns and the logger objects after it
CheckComplianceCall(lgs, toolName, compliance, context) ==
  LET result == checkCompliance(toolName, compliance, context)
  IN [result  |-> result,
      loggers |-> IF ReturnsEarly(compliance) THEN lgs
                  ELSE AuditEvaluation(lgs, toolName, Val(compliance), result)]

----------------------------------------------------------------------------
(* Filter orchestrator.  A tool is [name, compliance].                     *)

\* FilterStep with unshift in place of push on the compliant bucket;
\* FilterPartitionInOrder tells it from FilterStep
FilterStepUnshift(acc, tool, context) ==
  LET c == CheckComplianceCall(acc.loggers, tool.name, tool.compliance, context)
  IN IF c.result.compliant
       THEN [acc EXCEPT !.compliant = <<tool>> \o @,
                        !.loggers = c.loggers]
       ELSE [acc EXCEPT !.rejected = Append(@, [tool |-> tool, result |-> c.result]),
                        !.loggers = c.loggers]

\* one turn of the loop of compliance-filter.ts 226-238
FilterStep(acc, tool, context) ==
  LET c == CheckComplianceCall(acc.loggers, tool.name, tool.compliance, context)
  IN IF c.result.compliant
       THEN [acc EXCEPT !.compliant = Append(@, tool),
                        !.loggers = c.loggers]
       ELSE [acc EXCEPT !.rejected = Append(@, [tool |-> tool, result |-> c.result]),
                        !.loggers = c.loggers]

RECURSIVE FilterLoop(_, _, _)
FilterLoop(acc, tools, context) ==
  IF Len(tools) = 0 THEN acc
  ELSE FilterLoop(FilterStep(acc, Head(tools), context), Tail(tools), context)

\* one call of filterCompliantTools: its two buckets and the logger objects after it
filterCompliantTools(lgs, tools, context) ==
  FilterLoop([compliant |-> <<>>, rejected |-> <<>>, loggers |-> lgs], tools, context)

----------------------------------------------------------------------------
(* Shipped deployment contexts and tool metadata                           *)

US == CC("U","S")
CN == CC("C","N")
RU == CC("R","U")
DE == CC("D","E")
CH == CC("C","H")

euDeploymentContext ==
  [governing_law |-> "EU",
   jurisdiction |-> "DE",
   data_residency |-> [required |-> <<EU, EEA, ADEQUACY>>,
                       prohibited |-> <<US, CN, RU>>],
   gdpr_requirements |->
     Def([transfer_mechanisms_required |-> Def(<<"ADEQUACY", "SCCS_2021", "BCR">>),
          special_categories_allowed |-> Def(FALSE)]),
   risk_classification |-> [maximum_permitted |-> "limited"],
   sectors |-> [prohibited |-> <<"healthcare_diagnosis", "legal_advice",
                                 "credit_scoring", "biometric_identification">>],
   certifications |-> [required_any |-> <<"ISO_27001", "SOC2_TYPE_II">>],
   unknown_handling |-> [processing_locations |-> "strict",
                         certifications |-> "permissive",
                         ai_act_status |-> "strict"],
   legacy_servers |-> [policy |-> "block", log_invocations |-> TRUE]]

usHealthcareContext ==
  [governing_law |-> "US",
   jurisdiction |-> "US-CA",
   data_residency |-> [required |-> <<US>>,
                       prohibited |-> <<CN, RU, CC("I","R"), CC("K","P")>>],
   gdpr_requirements |->
     Def([transfer_mechanisms_required |-> Def(<<>>),
          special_categories_allowed |-> Def(TRUE)]),
   risk_classification |-> [maximum_permitted |-> "high"],
   sectors |-> [prohibited |-> <<"biometric_identification", "emotion_recognition",
                                 "social_scoring">>],
   certifications |-> [required_any |-> <<"HIPAA_COMPLIANT", "SOC2_TYPE_II", "HITRUST">>],
   unknown_handling |-> [processing_locations |-> "strict",
                         certifications |-> "strict",
                         ai_act_status |-> "permissive"],
   legacy_servers |-> [policy |-> "warn", log_invocations |-> TRUE]]

\* the fields of PecComplianceMetadata that the filter or the logger reads
Metadata(version, locations, certs, classification, assessed, mechanisms, special, suitable, unsuitable, disclosed) ==
  [pec_version |-> version,
   processing_locations |-> locations,
   certifications |-> certs,
   ai_act_status |-> [classification |-> classification,
                      conformity_assessed |-> assessed,
                      notified_body |-> Undefined],
   gdpr |-> [transfer_mechanisms |-> mechanisms,
             special_categories_processed |-> special],
   suitable_for |-> suitable,
   unsuitable_for |-> unsuitable,
   supply_chain_disclosure |-> disclosed]

acmeTranslationCompliance ==
  [Metadata(Def("1.0"), <<CC("I","E"), CC("F","R")>>, <<"ISO_27001", "SOC2_TYPE_II">>,
           "minimal", TRUE, <<"ADEQUACY">>, FALSE,
           <<"translation", "localisation", "content">>,
           <<"legal_documents", "medical_records">>, TRUE) EXCEPT
     !.ai_act_status.notified_body = Def("BSI_Group")]

medixUsCompliance ==
  Metadata(Def("1.0"), <<US>>, <<"HIPAA_COMPLIANT", "SOC2_TYPE_II", "HITRUST">>,
           "high", FALSE, <<>>, TRUE,
           <<"healthcare_analysis", "medical_records", "clinical_research">>,
           <<"eu_personal_data", "gdpr_scope">>, TRUE)

\* third-party-servers.ts: the metadata of the other four mock servers
globalPayCompliance ==
  Metadata(Def("1.0"), <<US, CC("S","G")>>, <<"PCI_DSS", "SOC2_TYPE_II">>,
           "limited", FALSE, <<"SCCS_2021">>, FALSE,
           <<"payment_processing", "fraud_detection", "financial_analytics">>,
           <<"healthcare", "biometric">>, TRUE)

swissVaultCompliance ==
  [Metadata(Def("1.0"), <<CH>>, <<"ISO_27001", "SOC2_TYPE_II", "FINMA_COMPLIANT">>,
           "limited", TRUE, <<"ADEQUACY">>, FALSE,
           <<"document_storage", "secure_archival", "financial_records">>,
           <<"real_time_processing", "streaming">>, TRUE) EXCEPT
     !.ai_act_status.notified_body = Def("SGS_SA")]

tokyoAiLabsCompliance ==
  Metadata(Def("1.0"), <<CC("J","P")>>, <<"ISO_27001", "JIPDEC_PRIVACY_MARK">>,
           "limited", TRUE, <<"ADEQUACY">>, FALSE,
           <<"image_analysis", "ocr", "document_processing">>,
           <<"biometric_identification", "facial_recognition">>, TRUE)

beijingCloudCompliance ==
  Metadata(Def("1.0"), <<CN>>, <<"MLPS_LEVEL_3">>,
           "limited", FALSE, <<>>, FALSE,
           <<"general_compute", "batch_processing">>,
           <<"eu_personal_data", "gdpr_scope", "us_government">>, FALSE)

\* mcp-server/src/tools.ts: the metadata of the real server's four tools
\* the name of the notified body is written without its umlauts
complianceMetadataEuCompliant1 ==
  [Metadata(Def("1.0"), <<DE, CC("I","E")>>, <<"ISO_27001", "SOC2_TYPE_II">>,
           "limited", TRUE, <<"ADEQUACY">>, FALSE,
           <<"research", "summarisation", "translation", "data_analysis">>,
           <<"healthcare_diagnosis", "legal_advice", "credit_scoring">>, TRUE) EXCEPT
     !.ai_act_status.notified_body = Def("TUV_SUD")]

complianceMetadataEuCompliant2 ==
  Metadata(Def("1.0"), <<CC("N","L")>>, <<"ISO_27001">>,
           "minimal", TRUE, <<"ADEQUACY">>, FALSE,
           <<"text_processing", "formatting", "spell_check">>,
           <<"biometric_identification", "emotion_recognition">>, TRUE)

complianceMetadataNonCompliant ==
  Metadata(Def("1.0"), <<US, CN>>, <<>>,
           "high", FALSE, <<>>, FALSE,
           <<"internal_testing">>,
           <<"eu_personal_data", "gdpr_scope", "production">>, FALSE)

complianceMetadataUsHealthcare ==
  Metadata(Def("1.0"), <<US>>, <<"HIPAA_COMPLIANT", "SOC2_TYPE_II", "HITRUST">>,
           "high", FALSE, <<>>, TRUE,
           <<"healthcare_analysis", "medical_records", "clinical_research">>,
           <<"eu_personal_data", "gdpr_scope">>, TRUE)

Tool(name, compliance) == [name |-> name, compliance |-> Def(compliance)]

\* the tools of allThirdPartyServers, in the order of the servers
allThirdPartyTools ==
  <<Tool("acme_translate", acmeTranslationCompliance),
    Tool("globalpay_fraud_check", globalPayCompliance),
    Tool("swissvault_store", swissVaultCompliance),
    Tool("tokyoai_ocr", tokyoAiLabsCompliance),
    Tool("beijingcloud_compute", beijingCloudCompliance),
    Tool("medixus_analyse", medixUsCompliance)>>

\* the real server's tools
allTools ==
  <<Tool("document_summariser", complianceMetadataEuCompliant1),
    Tool("text_formatter", complianceMetadataEuCompliant2),
    Tool("data_exporter", complianceMetadataNonCompliant),
    Tool("healthcare_analyser", complianceMetadataUsHealthcare)>>

----------------------------------------------------------------------------
(* Bounds and input sets                                                   *)

MaxLocations == 2   \* declared processing locations of a tool
MaxCodes == 2       \* codes in data_residency.required / .prohibited
MaxTools == 3       \* tools in one filterCompliantTools call
MaxSessions == 2    \* initAuditLogger calls in a run
MaxEntries == 3     \* audit entries written in a run

BoundedSeq(S, n) == UNION {[1..k -> S] : k \in 0..n}

LowerOf ==
  [c \in Range(UpperLetters) |->
     LowerLetters[CHOOSE i \in DOMAIN UpperLetters : UpperLetters[i] = c]]

LowerChar(c) == IF c \in DOMAIN LowerOf THEN LowerOf[c] ELSE c

\* every letter-casing of a code
Casings(s) ==
  {t \in [DOMAIN s -> {UpperChar(s[i]) : i \in DOMAIN s}
                        \cup {LowerChar(s[i]) : i \in DOMAIN s}] :
     ToUpperCase(t) = ToUpperCase(s)}

Contexts == {euDeploymentContext, usHealthcareContext}

\* a tool without metadata, one without a version string, two shipped tools
Catalog ==
  {[name |-> "legacy_tool", compliance |-> Undefined],
   [name |-> "unversioned_tool",
    compliance |-> Def([medixUsCompliance EXCEPT !.pec_version = Def("")])],
   [name |-> "acme_translate", compliance |-> Def(acmeTranslationCompliance)],
   [name |-> "medixus_analyse", compliance |-> Def(medixUsCompliance)]}

TotalEntries(lgs) ==
  LET RECURSIVE Sum(_)
      Sum(i) == IF i = 0 THEN 0 ELSE Len(lgs[i].log.entries) + Sum(i - 1)
  IN Sum(Len(lgs))

NoCall == [op |-> "none", args |-> <<>>, returned |-> Undefined,
           previous |-> Undefined]

----------------------------------------------------------------------------
(* The program: a caller that starts sessions and evaluates tools          *)

Init ==
  /\ loggers = <<>>
  /\ globalAuditLogger = 0
  /\ call = NoCall
  /\ pc = "idle"

\* initAuditLogger(context)
InitAuditLogger(context) ==
  /\ pc = "idle"
  /\ Len(loggers) < MaxSessions
  /\ loggers' = Append(loggers, NewPecAuditLogger(context, Len(loggers) + 1))
  /\ globalAuditLogger' = Len(loggers) + 1
  /\ UNCHANGED <<call, pc>>

\* checkCompliance(toolName, compliance, context), called directly
CheckCompliance(toolName, compliance, context) ==
  /\ pc = "idle"
  /\ LET c == CheckComplianceCall(loggers, toolName, compliance, context)
         args == [toolName |-> toolName, compliance |-> compliance,
                  context |-> context]
     IN /\ TotalEntries(c.loggers) <= MaxEntries
        /\ loggers' = c.loggers
        /\ call' = [op |-> "checkCompliance",
                    args |-> args,
                    returned |-> Def(c.result),
                    previous |->
                      IF /\ call.op = "checkCompliance"
                         /\ call.args.compliance = compliance
                         /\ call.args.context = context
                        THEN call.returned ELSE Undefined]
  /\ UNCHANGED <<globalAuditLogger, pc>>

(* The methods of the session's logger, called on the reference that       *)
(* initAuditLogger returned for the running session (index.ts 100, 121)    *)

\* auditLogger.logAgentInitialisation(compliantCount, rejectedCount)
LogAgentInitialisation(compliantCount, rejectedCount) ==
  /\ pc = "idle"
  /\ globalAuditLogger # 0
  /\ TotalEntries(loggers) < MaxEntries
  /\ loggers' = [loggers EXCEPT ![globalAuditLogger] =
                   logAgentInitialisation(@, compliantCount, rejectedCount)]
  /\ UNCHANGED <<globalAuditLogger, call, pc>>

\* auditLogger.logToolInvocation(toolName, compliance, inputSummary)
LogToolInvocation(toolName, compliance, inputSummary) ==
  /\ pc = "idle"
  /\ globalAuditLogger # 0
  /\ TotalEntries(loggers) < MaxEntries
  /\ loggers' = [loggers EXCEPT ![globalAuditLogger] =
                   logToolInvocation(@, toolName, compliance, inputSummary)]
  /\ UNCHANGED <<globalAuditLogger, call, pc>>

\* auditLogger.logToolInvocationBlocked(toolName, reason)
LogToolInvocationBlocked(toolName, reason) ==
  /\ pc = "idle"
  /\ globalAuditLogger # 0
  /\ TotalEntries(loggers) < MaxEntries
  /\ loggers' = [loggers EXCEPT ![globalAuditLogger] =
                   logToolInvocationBlocked(@, toolName, reason)]
  /\ UNCHANGED <<globalAuditLogger, call, pc>>

BlockedReason == <<"Tool is not in the compliant set">>

Next ==
  \/ \E context \in Contexts : InitAuditLogger(context)
  \/ \E tool \in Catalog, context \in Contexts :
       CheckCompliance(tool.name, tool.compliance, context)

Spec == Init /\ [][Next]_vars

(* The same caller with every method of the logger, on two tools: the      *)
(* evaluations that reach the logger, those of the tool with metadata, and *)
(* the three methods that nothing but the caller invokes                   *)

\* a tool without metadata and a shipped tool
LoggedCatalog == {tool \in Catalog : tool.name \in {"legacy_tool", "medixus_analyse"}}

NextLogger ==
  \/ \E context \in Contexts : InitAuditLogger(context)
  \/ \E tool \in LoggedCatalog, context \in Contexts :
       /\ IsDefined(tool.compliance)
       /\ CheckCompliance(tool.name, tool.compliance, context)
  \/ LogAgentInitialisation(1, 1)
  \/ \E tool \in LoggedCatalog :
       /\ IsDefined(tool.compliance)
       /\ LogToolInvocation(tool.name, Val(tool.compliance), "input")
  \/ \E tool \in LoggedCatalog :
       /\ ~IsDefined(tool.compliance)
       /\ LogToolInvocationBlocked(tool.name, BlockedReason)

SpecLogger == Init /\ [][NextLogger]_vars

----------------------------------------------------------------------------
(* One prepared call, run once: the functions on bounded inputs            *)

Pending(op, args) ==
  [op |-> op, args |-> args, returned |-> Undefined, previous |-> Undefined]

RunIsLocationAllowed ==
  /\ pc = "ready"
  /\ call.op = "isLocationAllowed"
  /\ call' = [call EXCEPT !.returned =
                Def(isLocationAllowed(call.args.location, call.args.required,
                                      call.args.prohibited))]
  /\ pc' = "idle"
  /\ UNCHANGED <<loggers, globalAuditLogger>>

RunCheckCompliance ==
  /\ pc = "ready"
  /\ call.op = "checkCompliance"
  /\ LET c == CheckComplianceCall(loggers, call.args.toolName,
                                  call.args.compliance, call.args.context)
     IN /\ loggers' = c.loggers
        /\ call' = [call EXCEPT !.returned = Def(c.result)]
  /\ pc' = "idle"
  /\ UNCHANGED globalAuditLogger

RunFilterCompliantTools ==
  /\ pc = "ready"
  /\ call.op = "filterCompliantTools"
  /\ LET f == filterCompliantTools(loggers, call.args.tools, call.args.context)
     IN /\ loggers' = f.loggers
        /\ call' = [call EXCEPT !.returned =
                      Def([compliant |-> f.compliant, rejected |-> f.rejected])]
  /\ pc' = "idle"
  /\ UNCHANGED globalAuditLogger

\* a deployment context with the given rule settings
ContextWith(required, prohibited, gdpr, maximum_permitted, sectors, required_any, uhCertifications, uhAiActStatus, policy) ==
  [governing_law |-> "EU",
   jurisdiction |-> "DE",
   data_residency |-> [required |-> required, prohibited |-> prohibited],
   gdpr_requirements |-> gdpr,
   risk_classification |-> [maximum_permitted |-> maximum_permitted],
   sectors |-> [prohibited |-> sectors],
   certifications |-> [required_any |-> required_any],
   unknown_handling |-> [processing_locations |-> "strict",
                         certifications |-> uhCertifications,
                         ai_act_status |-> uhAiActStatus],
   legacy_servers |-> [policy |-> policy, log_invocations |-> TRUE]]

CheckCall(compliance, context) ==
  Pending("checkCompliance",
          [toolName |-> "tool", compliance |-> compliance, context |-> context])

(* Locations: every required and prohibited list over an aggregate code,   *)
(* a lower-case aggregate code and two country codes                        *)

JurisdictionCodes == {EU, <<"a","d","e","q","u","a","c","y">>, DE, US}
LocationCodes == {DE, <<"d","e">>, CH, US}
CasedLocations == UNION {Casings(c) : c \in {DE, CH, US, CC("N","O")}}

LocationContext(required, prohibited, policy) ==
  [euDeploymentContext EXCEPT
     !.data_residency = [required |-> required, prohibited |-> prohibited],
     !.legacy_servers.policy = policy]

IsLocationAllowedCalls ==
  {Pending("isLocationAllowed",
           [location |-> l, required |-> r, prohibited |-> p]) :
     l \in CasedLocations,
     r \in BoundedSeq(JurisdictionCodes, MaxCodes),
     p \in BoundedSeq(JurisdictionCodes, MaxCodes)}

LocationCalls ==
  {CheckCall(Def([acmeTranslationCompliance EXCEPT
                    !.pec_version = version, !.processing_locations = ls]),
             LocationContext(r, p, policy)) :
     version \in {Def("1.0"), Def("")},
     policy \in {"block", "warn"},
     ls \in BoundedSeq(LocationCodes, MaxLocations),
     r \in BoundedSeq(JurisdictionCodes, MaxCodes),
     p \in BoundedSeq(JurisdictionCodes, MaxCodes)}

InitLocation ==
  /\ loggers = <<>>
  /\ globalAuditLogger = 0
  /\ call \in IsLocationAllowedCalls
  /\ pc = "ready"

NextLocation == RunIsLocationAllowed

SpecLocation == InitLocation /\ [][NextLocation]_vars

InitPrecedence ==
  /\ loggers = <<>>
  /\ globalAuditLogger = 0
  /\ call \in LocationCalls
  /\ pc = "ready"

NextPrecedence == RunCheckCompliance

SpecPrecedence == InitPrecedence /\ [][NextPrecedence]_vars

(* Rules: every combination of passing and failing rules                   *)

StrictGdpr ==
  Def([transfer_mechanisms_required |-> Def(<<"BCR", "SCCS_2021">>),
       special_categories_allowed |-> Def(FALSE)])

RuleContexts ==
  {ContextWith(<<EU>>, <<US, CN>>, gdpr, "limited",
               <<"legal_advice", "credit_scoring">>,
               <<"ISO_27001", "SOC2_TYPE_II">>, uhCert, uhAi, policy) :
     gdpr \in {Undefined, StrictGdpr},
     uhCert \in {"strict", "permissive"},
     uhAi \in {"strict", "permissive"},
     policy \in {"allow", "warn", "block"}}

RuleMetadata(versions, locationLists) ==
  {Metadata(version, locations, certs, classification, assessed, mechanisms,
            special, suitable, <<>>, disclosed) :
     version \in versions,
     locations \in locationLists,
     certs \in {<<>>, <<"SOC2_TYPE_II">>},
     classification \in {"limited", "high"},
     assessed \in BOOLEAN,
     mechanisms \in {<<>>, <<"SCCS_2021">>, <<"DEROGATION_CONSENT">>},
     special \in BOOLEAN,
     suitable \in {<<>>, <<"credit_scoring", "legal_advice">>,
                   <<"translation", "legal_advice">>},
     disclosed \in BOOLEAN}

RiskClasses == DOMAIN RISK_LEVELS

RiskContexts ==
  {ContextWith(<<EU>>, <<US, CN>>, StrictGdpr, maximum_permitted,
               <<"legal_advice", "credit_scoring">>,
               <<"ISO_27001", "SOC2_TYPE_II">>, "strict", uhAi, "block") :
     maximum_permitted \in RiskClasses, uhAi \in {"strict", "permissive"}}

RiskMetadata ==
  {Metadata(Def("1.0"), locations, <<"ISO_27001">>, classification, assessed,
            <<"SCCS_2021">>, FALSE, <<"translation">>, <<>>, TRUE) :
     locations \in {<<>>, <<CN>>},
     classification \in RiskClasses,
     assessed \in BOOLEAN}

\* metadata without a version string, violating some rules
LegacyMetadata ==
  {Metadata(version, locations, <<>>, classification, FALSE, <<>>, special,
            suitable, <<>>, FALSE) :
     version \in {Undefined, Def("")},
     locations \in {<<>>, <<CN>>},
     classification \in {"limited", "high"},
     special \in BOOLEAN,
     suitable \in {<<>>, <<"credit_scoring", "legal_advice">>}}

RuleCalls ==
  {CheckCall(Def(m), c) :
     m \in RuleMetadata({Def("1.0")}, BoundedSeq({DE, CN, US}, MaxLocations)),
     c \in RuleContexts}

LegacyCalls ==
  {CheckCall(m, c) :
     m \in {Undefined} \cup {Def(l) : l \in LegacyMetadata},
     c \in RuleContexts}

RiskCalls ==
  {CheckCall(Def(m), c) : m \in RiskMetadata, c \in RiskContexts}

InitRules ==
  /\ loggers = <<>>
  /\ globalAuditLogger = 0
  /\ \/ call \in RuleCalls
     \/ call \in LegacyCalls
     \/ call \in RiskCalls
  /\ pc = "ready"

NextRules == RunCheckCompliance

SpecRules == InitRules /\ [][NextRules]_vars

(* Filter: every list of catalogue tools, with and without a session       *)

FilterCalls ==
  {Pending("filterCompliantTools", [tools |-> tools, context |-> context]) :
     tools \in BoundedSeq(Catalog, MaxTools), context \in Contexts}

InitFilter ==
  /\ loggers \in {<<>>} \cup {<<NewPecAuditLogger(c, 1)>> : c \in Contexts}
  /\ globalAuditLogger = Len(loggers)
  /\ call \in FilterCalls
  /\ pc = "ready"

NextFilter == RunFilterCompliantTools

SpecFilter == InitFilter /\ [][NextFilter]_vars

(* Session: the tools of a list evaluated under one session by callers     *)
(* that take their turns in any order.  checkCompliance holds no await     *)
(* (compliance-filter.ts 104-217), so each evaluation with its appends     *)
(* runs to completion before another caller's starts.                      *)

\* the evaluations performed so far, in the order they were performed:
\* [task, result], task the tool's index in the list
Performed == Val(call.returned)

SessionCalls ==
  {[op |-> "evaluations", args |-> [tools |-> tools, context |-> context],
    returned |-> Def(<<>>), previous |-> Undefined] :
     tools \in BoundedSeq(Catalog, MaxTools), context \in Contexts}

InitSession ==
  /\ loggers \in {<<NewPecAuditLogger(c, 1)>> : c \in Contexts}
  /\ globalAuditLogger = 1
  /\ call \in SessionCalls
  /\ pc = "ready"

\* Evaluate writing its entries to the log as it was when the session
\* started, as an append that read the log before the other callers wrote;
\* SerializedAppends tells it from Evaluate
EvaluateLostUpdate(task) ==
  /\ pc = "ready"
  /\ call.op = "evaluations"
  /\ task \in DOMAIN call.args.tools
  /\ \A k \in DOMAIN Performed : Performed[k].task # task
  /\ LET tool == call.args.tools[task]
         stale == <<NewPecAuditLogger(loggers[1].context, 1)>>
         c == CheckComplianceCall(stale, tool.name, tool.compliance,
                                  call.args.context)
     IN /\ loggers' = c.loggers
        /\ call' = [call EXCEPT !.returned =
                      Def(Append(Val(@), [task |-> task, result |-> c.result]))]
  /\ pc' = IF Len(Performed) + 1 = Len(call.args.tools) THEN "idle" ELSE "ready"
  /\ UNCHANGED globalAuditLogger

\* the caller of the task-th tool takes its turn: one call of checkCompliance
Evaluate(task) ==
  /\ pc = "ready"
  /\ call.op = "evaluations"
  /\ task \in DOMAIN call.args.tools
  /\ \A k \in DOMAIN Performed : Performed[k].task # task
  /\ LET tool == call.args.tools[task]
         c == CheckComplianceCall(loggers, tool.name, tool.compliance,
                                  call.args.context)
     IN /\ loggers' = c.loggers
        /\ call' = [call EXCEPT !.returned =
                      Def(Append(Val(@), [task |-> task, result |-> c.result]))]
  /\ pc' = IF Len(Performed) + 1 = Len(call.args.tools) THEN "idle" ELSE "ready"
  /\ UNCHANGED globalAuditLogger

NextSession == \E task \in 1..MaxTools : Evaluate(task)

SpecSession == InitSession /\ [][NextSession]_vars

(* Malformed contexts: a maximum_permitted or an unknown_handling value    *)
(* that its enumeration does not hold, as a context read from              *)
(* configuration can carry; the types are erased at run time               *)

UnknownHandling == {"strict", "permissive", "escalate"}

IsMalformed(context) ==
  \/ context.risk_classification.maximum_permitted \notin RiskClasses
  \/ context.unknown_handling.processing_locations \notin UnknownHandling
  \/ context.unknown_handling.certifications \notin UnknownHandling
  \/ context.unknown_handling.ai_act_status \notin UnknownHandling

MalformedContexts ==
  {c \in {ContextWith(<<EU>>, <<US, CN>>, StrictGdpr, maximum_permitted,
                      <<"legal_advice", "credit_scoring">>,
                      <<"ISO_27001", "SOC2_TYPE_II">>, uhCert, uhAi, "block") :
            maximum_permitted \in RiskClasses \cup {"critical", "LIMITED"},
            uhCert \in {"strict", "lenient"},
            uhAi \in {"strict", "Strict"}} :
     IsMalformed(c)}

\* metadata that passes or fails the risk, conformity and certification rules
MalformedMetadata ==
  {Metadata(Def("1.0"), <<>>, certs, classification, assessed,
            <<"SCCS_2021">>, FALSE, <<"translation">>, <<>>, TRUE) :
     certs \in {<<>>, <<"ISO_27001">>},
     classification \in RiskClasses,
     assessed \in BOOLEAN}

MalformedCalls ==
  {CheckCall(Def(m), c) : m \in MalformedMetadata, c \in MalformedContexts}

InitMalformed ==
  /\ loggers = <<>>
  /\ globalAuditLogger = 0
  /\ call \in MalformedCalls
  /\ pc = "ready"

NextMalformed == RunCheckCompliance

SpecMalformed == InitMalformed /\ [][NextMalformed]_vars

(* Expansion: the three aggregate codes in every casing, country codes,    *)
(* and codes that are a part or an extension of an aggregate code          *)

RECURSIVE AllCasings(_)
AllCasings(s) ==
  IF Len(s) = 0 THEN {<<>>}
  ELSE {<<c>> \o t : c \in {UpperChar(Head(s)), LowerChar(Head(s))},
                     t \in AllCasings(Tail(s))}

OtherCodes ==
  {DE, US, CC("N","O"), CC("G","B"), CC("E","E"), <<"E">>, <<"E","U","R">>,
   <<"E","E","A","S">>, <<"U","E">>}

ExpandCodes ==
  UNION {AllCasings(c) : c \in {EU, EEA, ADEQUACY} \cup OtherCodes}

RunExpandJurisdiction ==
  /\ pc = "ready"
  /\ call.op = "expandJurisdiction"
  /\ call' = [call EXCEPT !.returned = Def(expandJurisdiction(call.args.code))]
  /\ pc' = "idle"
  /\ UNCHANGED <<loggers, globalAuditLogger>>

InitExpand ==
  /\ loggers = <<>>
  /\ globalAuditLogger = 0
  /\ call \in {Pending("expandJurisdiction", [code |-> c]) : c \in ExpandCodes}
  /\ pc = "ready"

NextExpand == RunExpandJurisdiction

SpecExpand == InitExpand /\ [][NextExpand]_vars

(* Demo: the shipped tools filtered under a shipped context, in the        *)
(* session that runDemo starts with that context: the whole catalogue,     *)
(* each server's list, and every list of up to MaxDemoTools shipped tools  *)

MaxDemoTools == 2

ShippedCatalog == allThirdPartyTools \o allTools

DemoLists ==
  {ShippedCatalog, allThirdPartyTools, allTools}
    \cup BoundedSeq(Range(ShippedCatalog), MaxDemoTools)

DemoCalls ==
  {Pending("filterCompliantTools", [tools |-> tools, context |-> context]) :
     tools \in DemoLists, context \in Contexts}

InitDemo ==
  /\ call \in DemoCalls
  /\ loggers = <<NewPecAuditLogger(call.args.context, 1)>>
  /\ globalAuditLogger = 1
  /\ pc = "ready"

NextDemo == RunFilterCompliantTools

SpecDemo == InitDemo /\ [][NextDemo]_vars

(* Settings: each rule over the settings of the context that steer it and  *)
(* the metadata fields it reads, versioned and versionless                 *)

\* unknown_handling in its three values, with and without required
\* certifications
HandlingContexts ==
  {ContextWith(<<EU>>, <<US, CN>>, StrictGdpr, "limited",
               <<"legal_advice", "credit_scoring">>, required_any,
               uhCert, uhAi, policy) :
     required_any \in {<<>>, <<"ISO_27001", "SOC2_TYPE_II">>},
     uhCert \in UnknownHandling,
     uhAi \in UnknownHandling,
     policy \in {"warn", "block"}}

HandlingMetadata ==
  {Metadata(version, locations, certs, classification, assessed,
            <<"SCCS_2021">>, FALSE, <<"translation">>, <<>>, disclosed) :
     version \in {Def("1.0"), Def("")},
     locations \in {<<>>, <<CN>>},
     certs \in {<<>>, <<"SOC2_TYPE_II">>, <<"HIPAA_COMPLIANT">>,
                <<"HIPAA_COMPLIANT", "ISO_27001">>},
     classification \in {"limited", "high"},
     assessed \in BOOLEAN,
     disclosed \in BOOLEAN}

HandlingCalls ==
  {CheckCall(Def(m), c) : m \in HandlingMetadata, c \in HandlingContexts}

\* gdpr_requirements absent, and with each of its two fields undefined,
\* empty or permissive, and strict
GdprRequirements ==
  {Undefined} \cup
  {Def([transfer_mechanisms_required |-> required,
        special_categories_allowed |-> allowed]) :
     required \in {Undefined, Def(<<>>), Def(<<"BCR", "SCCS_2021">>)},
     allowed \in {Undefined, Def(TRUE), Def(FALSE)}}

GdprContexts ==
  {ContextWith(<<EU>>, <<US, CN>>, gdpr, "limited",
               <<"legal_advice", "credit_scoring">>,
               <<"ISO_27001", "SOC2_TYPE_II">>, uhCert, "strict", policy) :
     gdpr \in GdprRequirements,
     uhCert \in {"strict", "permissive"},
     policy \in {"warn", "block"}}

GdprMetadata ==
  {Metadata(version, locations, certs, "limited", assessed, mechanisms, special,
            <<"translation">>, <<>>, TRUE) :
     version \in {Def("1.0"), Def("")},
     locations \in {<<>>, <<CN>>},
     certs \in {<<>>, <<"SOC2_TYPE_II">>},
     assessed \in BOOLEAN,
     mechanisms \in {<<>>, <<"SCCS_2021">>, <<"DEROGATION_CONSENT">>,
                     <<"DEROGATION_CONSENT", "BCR">>,
                     <<"ADEQUACY", "DEROGATION_CONSENT">>},
     special \in BOOLEAN}

GdprCalls ==
  {CheckCall(Def(m), c) : m \in GdprMetadata, c \in GdprContexts}

MaxSectors == 2   \* tags in sectors.prohibited

SectorTags == {"legal_advice", "credit_scoring", "healthcare_diagnosis"}

\* the lists of different tags
ProhibitedSectors ==
  {sectors \in BoundedSeq(SectorTags, MaxSectors) :
     \A i, j \in DOMAIN sectors : sectors[i] = sectors[j] => i = j}

SectorContexts ==
  {ContextWith(<<EU>>, <<US, CN>>, StrictGdpr, "limited", sectors,
               <<"ISO_27001", "SOC2_TYPE_II">>, "strict", "strict", policy) :
     sectors \in ProhibitedSectors,
     policy \in {"warn", "block"}}

SectorMetadata ==
  {Metadata(version, locations, <<"SOC2_TYPE_II">>, "limited", TRUE,
            <<"SCCS_2021">>, FALSE, suitable, unsuitable, TRUE) :
     version \in {Def("1.0"), Def("")},
     locations \in {<<>>, <<CN>>},
     suitable \in {<<>>, <<"credit_scoring", "legal_advice">>,
                   <<"translation", "legal_advice">>, <<"healthcare_diagnosis">>},
     unsuitable \in {<<>>, <<"legal_advice">>,
                     <<"credit_scoring", "healthcare_diagnosis">>}}

SectorCalls ==
  {CheckCall(Def(m), c) : m \in SectorMetadata, c \in SectorContexts}

\* unknown_handling.processing_locations in its three values
LocationHandlingContexts ==
  {[ContextWith(required, <<US, CN>>, StrictGdpr, "limited",
                <<"legal_advice", "credit_scoring">>,
                <<"ISO_27001", "SOC2_TYPE_II">>, uhCert, "strict", "block")
      EXCEPT !.unknown_handling.processing_locations = uhLocations] :
     required \in {<<>>, <<EU>>},
     uhCert \in {"strict", "permissive"},
     uhLocations \in UnknownHandling}

LocationHandlingMetadata ==
  {Metadata(Def("1.0"), locations, certs, classification, TRUE,
            <<"SCCS_2021">>, FALSE, <<"translation">>, <<>>, TRUE) :
     locations \in BoundedSeq({DE, CN, CH}, MaxLocations),
     certs \in {<<>>, <<"SOC2_TYPE_II">>},
     classification \in {"limited", "high"}}

LocationHandlingCalls ==
  {CheckCall(Def(m), c) :
     m \in LocationHandlingMetadata, c \in LocationHandlingContexts}

InitSettings ==
  /\ loggers = <<>>
  /\ globalAuditLogger = 0
  /\ \/ call \in HandlingCalls
     \/ call \in GdprCalls
     \/ call \in SectorCalls
     \/ call \in LocationHandlingCalls
  /\ pc = "ready"

NextSettings == RunCheckCompliance

SpecSettings == InitSettings /\ [][NextSettings]_vars

----------------------------------------------------------------------------
(* Evaluations written to the audit log: one checkCompliance call in a     *)
(* session whose logger was initialised with the context of the call or    *)
(* with another one                                                        *)

\* the last tag holds a word that buildEvaluationTrace searches for
TracedSectors ==
  {<<>>, <<"legal_advice">>, <<"certification_services">>,
   <<"legal_advice", "certification_services">>}

TraceContexts ==
  {ContextWith(<<EU>>, <<US, CN>>, gdpr, "limited", sectors,
               <<"ISO_27001", "SOC2_TYPE_II">>, uhCertifications, uhAiActStatus,
               "block") :
     gdpr \in {Undefined, StrictGdpr},
     sectors \in TracedSectors,
     uhCertifications \in {"strict", "permissive"},
     uhAiActStatus \in {"strict", "permissive"}}

TraceMetadata ==
  {Metadata(Def("1.0"), locations, certs, classification, assessed,
            mechanisms, special, suitable, <<>>, TRUE) :
     locations \in {<<DE>>, <<US, CN>>},
     certs \in {<<>>, <<"ISO_27001">>},
     classification \in {"limited", "high"},
     assessed \in BOOLEAN,
     mechanisms \in {<<>>, <<"SCCS_2021">>},
     special \in BOOLEAN,
     suitable \in {<<"translation">>} \cup (TracedSectors \ {<<>>})}

TraceCalls ==
  {CheckCall(Def(m), c) : m \in TraceMetadata, c \in TraceContexts}

\* initAuditLogger(context) has run before the call is made
InitTrace ==
  /\ call \in TraceCalls
  /\ \E context \in {call.args.context, usHealthcareContext} :
       loggers = <<NewPecAuditLogger(context, 1)>>
  /\ globalAuditLogger = 1
  /\ pc = "ready"

NextTrace == RunCheckCompliance

SpecTrace == InitTrace /\ [][NextTrace]_vars

----------------------------------------------------------------------------
(* Tool discovery over MCP (mcp-client.ts).  A description is a sequence   *)
(* of pieces of text.  The JSON text of a metadata object is one piece,    *)
(* written here by the name of the object; JSON.parse gives the object     *)
(* back for these texts and throws for any other.                          *)

JsonTexts ==
  << <<"{complianceMetadataEuCompliant1}", complianceMetadataEuCompliant1>>,
     <<"{complianceMetadataEuCompliant2}", complianceMetadataEuCompliant2>>,
     <<"{complianceMetadataNonCompliant}", complianceMetadataNonCompliant>>,
     <<"{complianceMetadataUsHealthcare}", complianceMetadataUsHealthcare>> >>

JSONstringify(value) ==
  (CHOOSE p \in Range(JsonTexts) : p[2] = value)[1]

\* Undefined when JSON.parse throws
JSONparse(text) ==
  IF Len(text) = 1 /\ \E p \in Range(JsonTexts) : p[1] = text[1]
    THEN Def((CHOOSE p \in Range(JsonTexts) : p[1] = text[1])[2])
    ELSE Undefined

\* a text in braces that is not JSON: the keys are not quoted
UnquotedJson == "{pec_version: 1.0}"

\* the pieces that begin with '{' and the pieces that end with '}'
OpensBrace == {p[1] : p \in Range(JsonTexts)} \cup {UnquotedJson}
ClosesBrace == {p[1] : p \in Range(JsonTexts)} \cup {UnquotedJson}

\* description.match(PEC_METADATA_REGEX): the place of the leftmost
\* '[PEC_COMPLIANCE:' that is followed by text in braces and a ']' that ends
\* the description, or 0
PecMetadataMatch(description) ==
  LET n == Len(description)
      matches ==
        {i \in DOMAIN description :
           /\ description[i] = "[PEC_COMPLIANCE:"
           /\ i + 1 <= n - 1
           /\ description[i + 1] \in OpensBrace
           /\ description[n - 1] \in ClosesBrace
           /\ description[n] = "]"}
  IN IF matches = {} THEN 0
     ELSE CHOOSE i \in matches : \A j \in matches : i <= j

\* mcp-client.ts 28-40: Undefined for null
parsePecMetadataFromDescription(description) ==
  LET match == PecMetadataMatch(description)
  IN IF match = 0 THEN Undefined
     ELSE JSONparse(SubSeq(description, match + 1, Len(description) - 1))

RECURSIVE TrimEnd(_)
TrimEnd(text) ==
  IF Len(text) > 0 /\ text[Len(text)] \in {"\n\n", " ", ""}
    THEN TrimEnd(SubSeq(text, 1, Len(text) - 1))
    ELSE text

\* mcp-client.ts 42-44; the descriptions of the model begin with a word
getBaseDescription(description) ==
  LET match == PecMetadataMatch(description)
  IN TrimEnd(IF match = 0 THEN description
                          ELSE SubSeq(description, 1, match - 1))

\* toolName.replace(/^pecServer_/, '') on a name of one or two pieces
CleanName(toolName) ==
  IF toolName[1] = "pecServer_" /\ Len(toolName) > 1 THEN toolName[2]
  ELSE toolName[1]

\* mcp-client.ts 76-94: the body of the loop over the listed tools
DiscoverStep(tools, def) ==
  LET description == def.description
      compliance == parsePecMetadataFromDescription(description)
      cleanName == CleanName(def.toolName)
  IN Append(tools,
            [name |-> cleanName,
             description |-> getBaseDescription(description),
             compliance |-> compliance])

RECURSIVE DiscoverLoop(_, _)
DiscoverLoop(tools, toolsets) ==
  IF Len(toolsets) = 0 THEN tools
  ELSE DiscoverLoop(DiscoverStep(tools, Head(toolsets)), Tail(toolsets))

\* mcp-client.ts 74-105 on the tools the server lists; the execute wrapper
\* and disconnect are not used by the filter
connectToMcpServer(toolsets) ==
  [serverName |-> "pec-mcp-server", tools |-> DiscoverLoop(<<>>, toolsets)]

\* mcp-client.ts 108-120
formatDiscoveredToolsForFiltering(connection) ==
  LET withMetadata == SelectSeq(connection.tools, LAMBDA t : IsDefined(t.compliance))
  IN [i \in DOMAIN withMetadata |->
        [name |-> withMetadata[i].name, compliance |-> withMetadata[i].compliance]]

MaxDiscovered == 2   \* tools the server lists

\* what a server may send for a tool with the given metadata: no suffix, the
\* suffix buildPecDescription writes, a suffix whose text is not JSON, a
\* suffix followed by more text, a suffix cut before its end
Descriptions(base, compliance) ==
  {<<base>>,
   <<base, "\n\n", "[PEC_COMPLIANCE:", JSONstringify(compliance), "]">>,
   <<base, "\n\n", "[PEC_COMPLIANCE:", UnquotedJson, "]">>,
   <<base, "\n\n", "[PEC_COMPLIANCE:", JSONstringify(compliance), "]", " (beta)">>,
   <<base, "\n\n", "[PEC_COMPLIANCE:", JSONstringify(compliance)>>}

ToolDefs ==
  {[toolName |-> <<"pecServer_", "document_summariser">>, description |-> d] :
     d \in Descriptions("Summarises documents into concise overviews.",
                        complianceMetadataEuCompliant1)}
  \cup
  {[toolName |-> <<"pecServer_", "data_exporter">>, description |-> d] :
     d \in Descriptions("Exports data to external storage.",
                        complianceMetadataNonCompliant)}

DiscoveryCalls ==
  {Pending("runRealMcpServerDemo",
           [toolsets |-> toolsets, context |-> context, connection |-> Undefined]) :
     toolsets \in BoundedSeq(ToolDefs, MaxDiscovered), context \in Contexts}

\* connectToMcpServer()
ConnectToMcpServer ==
  /\ pc = "ready"
  /\ call.op = "runRealMcpServerDemo"
  /\ call' = [call EXCEPT !.args.connection =
                Def(connectToMcpServer(call.args.toolsets))]
  /\ pc' = "connected"
  /\ UNCHANGED <<loggers, globalAuditLogger>>

\* index.ts 76-92: the counts returned and the two buckets printed
DemoReturn(f) ==
  [totalCompliant |-> Len(f.compliant), totalRejected |-> Len(f.rejected),
   compliant |-> f.compliant, rejected |-> f.rejected]

\* index.ts 69-76
DemoFilter(lgs, toolsForFiltering, context) ==
  IF Len(toolsForFiltering) = 0
    THEN [compliant |-> <<>>, rejected |-> <<>>, loggers |-> lgs]
    ELSE filterCompliantTools(lgs, toolsForFiltering, context)

\* the state after runRealMcpServerDemo, f being what the filter gave
DemoDone(f) ==
  /\ loggers' = f.loggers
  /\ call' = [call EXCEPT !.returned = Def(DemoReturn(f))]

\* index.ts 60-93, runRealMcpServerDemo(contextName, context, connection)
RunRealMcpServerDemo ==
  /\ pc = "connected"
  /\ call.op = "runRealMcpServerDemo"
  /\ DemoDone(DemoFilter(loggers,
                         formatDiscoveredToolsForFiltering(Val(call.args.connection)),
                         call.args.context))
  /\ pc' = "idle"
  /\ UNCHANGED globalAuditLogger

\* runDemo has initialised the audit logger with the context
InitDiscovery ==
  /\ call \in DiscoveryCalls
  /\ loggers = <<NewPecAuditLogger(call.args.context, 1)>>
  /\ globalAuditLogger = 1
  /\ pc = "ready"

NextDiscovery ==
  \/ ConnectToMcpServer
  \/ RunRealMcpServerDemo

SpecDiscovery == InitDiscovery /\ [][NextDiscovery]_vars

----------------------------------------------------------------------------
(* Properties                                                              *)

Returned == Val(call.returned)

\* a checkCompliance call has returned
Evaluated ==
  pc = "idle" /\ call.op = "checkCompliance" /\ IsDefined(call.returned)

\* ... on a tool that carries metadata
EvaluatedMetadata == Evaluated /\ IsDefined(call.args.compliance)

\* ... on metadata that declares a version string
EvaluatedVersioned ==
  EvaluatedMetadata /\ Truthy(Val(call.args.compliance).pec_version)

\* ... on metadata without a version string
EvaluatedVersionless ==
  EvaluatedMetadata /\ ~Truthy(Val(call.args.compliance).pec_version)

\* the location rule as stated: in the expanded required set and not in
\* the expanded prohibited set
LocationPermitted(location, context) ==
  /\ ToUpperCase(location) \in ExpandAll(context.data_residency.required)
  /\ ToUpperCase(location) \notin ExpandAll(context.data_residency.prohibited)

RECURSIVE Pick(_, _, _)
\* the members of list at the positions in S, from position i on, in order
Pick(list, S, i) ==
  IF i > Len(list) THEN <<>>
  ELSE (IF i \in S THEN <<list[i]>> ELSE <<>>) \o Pick(list, S, i + 1)

IsLocationReason(r) == Len(r) > 0 /\ r[1] = "Processing location '"
IsRiskReason(r) == Len(r) > 0 /\ r[1] = "Tool risk classification '"
IsSectorReason(r) ==
  Len(r) > 0 /\ r[1] = "Tool is suitable for prohibited sector: '"

\* the reasons owed for the declared locations, in declared order
LocationReasonsOwed(compliance, context) ==
  LET locations == compliance.processing_locations
      owed == Pick(locations,
                   {i \in DOMAIN locations :
                      ~LocationPermitted(locations[i], context)}, 1)
  IN [i \in DOMAIN owed |-> LocationReason(owed[i])]

\* the reasons owed for the prohibited sectors, in the context's order
SectorReasonsOwed(compliance, context) ==
  LET sectors == context.sectors.prohibited
      owed == Pick(sectors,
                   {i \in DOMAIN sectors :
                      sectors[i] \in Range(compliance.suitable_for)}, 1)
  IN [i \in DOMAIN owed |-> SectorReason(owed[i])]

\* the order of the risk classes as the specification states it
RiskOrder ==
  <<"minimal", "limited", "gpai", "high", "gpai_systemic", "unacceptable">>

RiskPosition(c) == CHOOSE i \in DOMAIN RiskOrder : RiskOrder[i] = c

StrictlyAbove(classification, maximum_permitted) ==
  RiskPosition(classification) > RiskPosition(maximum_permitted)

(* C1 *)

\* C1 (prohibition precedence): for every declared processing location L and
\* every context, if uppercase(L) is in the expansion of
\* data_residency.prohibited then the result of checkCompliance holds a
\* location reason for L and is not compliant, also when uppercase(L) is in
\* the expansion of data_residency.required.
ProhibitionPrecedence ==
  EvaluatedMetadata =>
    LET locations == Val(call.args.compliance).processing_locations
        prohibited == ExpandAll(call.args.context.data_residency.prohibited)
    IN \A i \in DOMAIN locations :
         ToUpperCase(locations[i]) \in prohibited =>
           /\ Includes(Returned.reasons, LocationReason(locations[i]))
           /\ ~Returned.compliant

\* C1: a versionless tool under policy 'warn' declares a location that is in
\* both expansions and has been evaluated
ProhibitedAndRequiredVersionless ==
  /\ EvaluatedVersionless
  /\ call.args.context.legacy_servers.policy = "warn"
  /\ \E i \in DOMAIN Val(call.args.compliance).processing_locations :
       LET L == ToUpperCase(Val(call.args.compliance).processing_locations[i])
       IN /\ L \in ExpandAll(call.args.context.data_residency.prohibited)
          /\ L \in ExpandAll(call.args.context.data_residency.required)

\* the same property on metadata that declares a version string, where the
\* location loop of compliance-filter.ts 133-138 runs
ProhibitionPrecedenceVersioned ==
  EvaluatedVersioned => ProhibitionPrecedence

(* C2 *)

\* C2 (fail-closed location rule): isLocationAllowed returns true iff
\* uppercase(L) is in the expanded required set and not in the expanded
\* prohibited set; a location in neither set is not allowed; and every
\* letter-casing of L gets the same decision.
FailClosedLocationRule ==
  (pc = "idle" /\ call.op = "isLocationAllowed") =>
    LET L == call.args.location
        required == ExpandAll(call.args.required)
        prohibited == ExpandAll(call.args.prohibited)
    IN /\ Returned = (/\ ToUpperCase(L) \in required
                      /\ ToUpperCase(L) \notin prohibited)
       /\ (ToUpperCase(L) \notin required /\ ToUpperCase(L) \notin prohibited)
            => Returned = FALSE
       /\ \A other \in Casings(L) :
            isLocationAllowed(other, call.args.required, call.args.prohibited)
              = Returned

\* C2: a lower-case location that is in neither set, against a required set
\* that is not empty, has been decided
LocationInNeitherSet ==
  /\ pc = "idle" /\ call.op = "isLocationAllowed"
  /\ call.args.location # ToUpperCase(call.args.location)
  /\ Len(call.args.required) > 0
  /\ ToUpperCase(call.args.location) \notin ExpandAll(call.args.required)
  /\ ToUpperCase(call.args.location) \notin ExpandAll(call.args.prohibited)

(* C3 *)

\* C3: every result of checkCompliance, on metadata that is present,
\* versionless or absent, has compliant true iff its reasons list is empty,
\* whatever its warnings are.
CompliantIffNoReasons ==
  Evaluated => (Returned.compliant <=> Len(Returned.reasons) = 0)

\* C3: a result with three warnings and no reason has been returned
WarningsWithoutReasons ==
  /\ EvaluatedVersioned
  /\ Len(Returned.warnings) = 3
  /\ Len(Returned.reasons) = 0

(* C4 *)

\* what each check of compliance-filter.ts 133-205 finds when it runs alone
CheckOutcomes(compliance, context) ==
  {LocationCheck(emptyResult, compliance, context),
   RiskCheck(emptyResult, compliance, context),
   ConformityCheck(emptyResult, compliance, context),
   TransferCheck(emptyResult, compliance, context),
   SpecialCategoriesCheck(emptyResult, compliance, context),
   SectorCheck(emptyResult, compliance, context),
   CertificationCheck(emptyResult, compliance, context),
   SupplyChainCheck(emptyResult, compliance, context)}

Contributes(outcome, result) ==
  /\ \A i \in DOMAIN outcome.reasons : Includes(result.reasons, outcome.reasons[i])
  /\ \A i \in DOMAIN outcome.warnings : Includes(result.warnings, outcome.warnings[i])
  /\ ~outcome.compliant => ~result.compliant

\* C4 (no short-circuit): for a tool whose metadata is present, each of the
\* checks location, risk, conformity, transfer mechanism, special categories,
\* sector, certification and supply chain contributes its outcome to the
\* result whatever the other checks found, the version check included when
\* it is not fatal; so versionless metadata that declares a prohibited
\* location is rejected under policy 'allow' and 'warn'.
NoShortCircuit ==
  EvaluatedMetadata =>
    \A outcome \in CheckOutcomes(Val(call.args.compliance), call.args.context) :
      Contributes(outcome, Returned)

\* C4: versionless metadata that declares a prohibited location has been
\* evaluated under policy 'allow' or 'warn'
VersionlessProhibitedLocation ==
  /\ EvaluatedVersionless
  /\ call.args.context.legacy_servers.policy \in {"allow", "warn"}
  /\ \E i \in DOMAIN Val(call.args.compliance).processing_locations :
       ToUpperCase(Val(call.args.compliance).processing_locations[i])
         \in ExpandAll(call.args.context.data_residency.prohibited)

\* the same property on metadata that declares a version string
NoShortCircuitVersioned ==
  EvaluatedVersioned => NoShortCircuit

(* C5 *)

\* the number of rules a tool violates, one per violating instance
ViolationCount(compliance, context) ==
  LET gdpr == context.gdpr_requirements
      mechanisms ==
        IF IsDefined(gdpr) /\ IsDefined(Val(gdpr).transfer_mechanisms_required)
          THEN Range(Val(Val(gdpr).transfer_mechanisms_required))
          ELSE {}
      count(b) == IF b THEN 1 ELSE 0
  IN count(~Truthy(compliance.pec_version)
             /\ context.legacy_servers.policy = "block")
     + Len(LocationReasonsOwed(compliance, context))
     + count(StrictlyAbove(compliance.ai_act_status.classification,
                           context.risk_classification.maximum_permitted))
     + count(~compliance.ai_act_status.conformity_assessed
               /\ context.unknown_handling.ai_act_status = "strict")
     + count(mechanisms # {}
               /\ mechanisms \cap Range(compliance.gdpr.transfer_mechanisms) = {})
     + count(IsDefined(gdpr)
               /\ Val(gdpr).special_categories_allowed = Def(FALSE)
               /\ compliance.gdpr.special_categories_processed)
     + Len(SectorReasonsOwed(compliance, context))
     + count(context.certifications.required_any # <<>>
               /\ Range(context.certifications.required_any)
                    \cap Range(compliance.certifications) = {}
               /\ context.unknown_handling.certifications = "strict")

\* C5: for a tool with metadata present, the number of reasons in the result
\* of checkCompliance is the number of rules the tool violates.
ReasonsCountViolations ==
  EvaluatedMetadata =>
    Len(Returned.reasons)
      = ViolationCount(Val(call.args.compliance), call.args.context)

\* C5: versionless metadata above the risk threshold and suitable for a
\* prohibited sector has been evaluated under policy 'allow'
VersionlessRiskAndSector ==
  /\ EvaluatedVersionless
  /\ call.args.context.legacy_servers.policy = "allow"
  /\ StrictlyAbove(Val(call.args.compliance).ai_act_status.classification,
                   call.args.context.risk_classification.maximum_permitted)
  /\ Len(SectorReasonsOwed(Val(call.args.compliance), call.args.context)) > 0

\* the same property on metadata that declares a version string
ReasonsCountViolationsVersioned ==
  EvaluatedVersioned => ReasonsCountViolations

(* C6 *)

\* C6: absent metadata is resolved by legacy_servers.policy alone: 'block'
\* gives compliant = false with exactly one reason and no warning, 'warn'
\* gives compliant = true with exactly one warning and no reason, 'allow'
\* gives compliant = true with neither, whatever the rest of the context.
AbsentMetadataByPolicy ==
  (Evaluated /\ ~IsDefined(call.args.compliance)) =>
    LET policy == call.args.context.legacy_servers.policy IN
    /\ policy = "block" =>
         /\ ~Returned.compliant
         /\ Len(Returned.reasons) = 1
         /\ Len(Returned.warnings) = 0
    /\ policy = "warn" =>
         /\ Returned.compliant
         /\ Len(Returned.reasons) = 0
         /\ Len(Returned.warnings) = 1
    /\ policy = "allow" =>
         /\ Returned.compliant
         /\ Len(Returned.reasons) = 0
         /\ Len(Returned.warnings) = 0
    /\ \A other \in RuleContexts :
         other.legacy_servers.policy = policy =>
           checkCompliance(call.args.toolName, Undefined, other) = Returned

\* C6: a tool without metadata has been admitted with a warning by a context
\* whose other rules are all strict
AbsentMetadataWarned ==
  /\ Evaluated /\ ~IsDefined(call.args.compliance)
  /\ call.args.context.legacy_servers.policy = "warn"
  /\ call.args.context.unknown_handling.certifications = "strict"
  /\ call.args.context.unknown_handling.ai_act_status = "strict"
  /\ IsDefined(call.args.context.gdpr_requirements)
  /\ Returned.compliant
  /\ Len(Returned.warnings) = 1

(* C7 *)

\* C7 (monotonic risk ordering): with minimal < limited < gpai < high <
\* gpai_systemic < unacceptable, the result of checkCompliance holds a risk
\* reason, exactly one and naming both values, iff the tool's classification
\* is strictly above the context's maximum_permitted; a tool at or below the
\* maximum gets no risk reason.
MonotonicRiskOrdering ==
  EvaluatedMetadata =>
    LET classification == Val(call.args.compliance).ai_act_status.classification
        maximum_permitted == call.args.context.risk_classification.maximum_permitted
        riskReasons == SelectSeq(Returned.reasons, IsRiskReason)
    IN IF StrictlyAbove(classification, maximum_permitted)
         THEN /\ Len(riskReasons) = 1
              /\ riskReasons[1][2] = classification
              /\ riskReasons[1][4] = maximum_permitted
         ELSE Len(riskReasons) = 0

\* C7: versionless metadata of class 'high' has been evaluated against a
\* maximum of 'limited' under policy 'warn'
VersionlessAboveMaximum ==
  /\ EvaluatedVersionless
  /\ call.args.context.legacy_servers.policy = "warn"
  /\ Val(call.args.compliance).ai_act_status.classification = "high"
  /\ call.args.context.risk_classification.maximum_permitted = "limited"

\* the same property on metadata that declares a version string
MonotonicRiskOrderingVersioned ==
  EvaluatedVersioned => MonotonicRiskOrdering

(* C8 *)

\* C8: filterCompliantTools puts every tool in exactly one bucket, compliant
\* iff its checkCompliance result is compliant; the sizes of the two buckets
\* add up to the number of tools; each bucket lists its members in the order
\* of the input.
FilterPartitionInOrder ==
  (pc = "idle" /\ call.op = "filterCompliantTools") =>
    LET tools == call.args.tools
        passes == {i \in DOMAIN tools :
                     checkCompliance(tools[i].name, tools[i].compliance,
                                     call.args.context).compliant}
        rejectedTools == [i \in DOMAIN Returned.rejected |->
                            Returned.rejected[i].tool]
    IN /\ Returned.compliant = Pick(tools, passes, 1)
       /\ rejectedTools = Pick(tools, DOMAIN tools \ passes, 1)
       /\ Len(Returned.compliant) + Len(Returned.rejected) = Len(tools)
       /\ \A i \in DOMAIN Returned.rejected :
            Returned.rejected[i].result
              = checkCompliance(Returned.rejected[i].tool.name,
                                Returned.rejected[i].tool.compliance,
                                call.args.context)

\* C8: three tools have been filtered into two different compliant tools
\* around a rejected one
TwoAdmittedOneRejected ==
  /\ pc = "idle" /\ call.op = "filterCompliantTools"
  /\ Len(call.args.tools) = 3
  /\ Len(Returned.compliant) = 2
  /\ Returned.compliant[1] # Returned.compliant[2]
  /\ Len(Returned.rejected) = 1
  /\ Returned.rejected[1].tool = call.args.tools[2]

(* C9 *)

ReasonRank(r) ==
  CASE IsLocationReason(r) -> 1
    [] IsRiskReason(r) -> 2
    [] r = ConformityMessage -> 3
    [] r[1] \in {"Tool declares no GDPR transfer mechanisms but context requires one of: ",
                 "Tool transfer mechanisms ["} -> 4
    [] r[1] = "Tool processes GDPR special categories (Art 9) but deployment context prohibits this" -> 5
    [] IsSectorReason(r) -> 6
    [] r[1] = "Tool lacks required certifications. Required one of: " -> 7
    [] OTHER -> 0

WarningRank(w) ==
  CASE w = ConformityMessage -> 1
    [] w[1] = "Tool lacks preferred certifications: " -> 2
    [] w = SupplyChainWarning -> 3
    [] OTHER -> 0

\* C9 (stable ordering): for metadata with a version string the reasons come
\* in the order location (in declared location order), risk, conformity,
\* transfer mechanism, special categories, sector (in the context's
\* prohibited-sector order), certification; the warnings come in the order
\* conformity, certification, supply chain.
StableOrdering ==
  EvaluatedVersioned =>
    LET reasons == Returned.reasons
        warnings == Returned.warnings
    IN /\ \A i \in DOMAIN reasons : ReasonRank(reasons[i]) > 0
       /\ \A i, j \in DOMAIN reasons :
            i < j => ReasonRank(reasons[i]) <= ReasonRank(reasons[j])
       /\ SelectSeq(reasons, IsLocationReason)
            = LocationReasonsOwed(Val(call.args.compliance), call.args.context)
       /\ SelectSeq(reasons, IsSectorReason)
            = SectorReasonsOwed(Val(call.args.compliance), call.args.context)
       /\ \A i \in DOMAIN warnings : WarningRank(warnings[i]) > 0
       /\ \A i, j \in DOMAIN warnings :
            i < j => WarningRank(warnings[i]) < WarningRank(warnings[j])

\* C9: a result with two different location reasons, a risk, a transfer, a
\* special-category, two sector and a certification reason, and with two
\* warnings, has been returned
ManyReasonsAndWarnings ==
  /\ EvaluatedVersioned
  /\ Len(Returned.reasons) = 8
  /\ Returned.reasons[1] # Returned.reasons[2]
  /\ Len(Returned.warnings) = 2

(* C10 *)

\* C10 (purity): the result of checkCompliance is a function of the metadata
\* and the context alone: a call returns what the preceding call on the same
\* metadata and context returned, whether the audit logger was not
\* initialised, fresh, or holding entries, and whatever context it was
\* initialised with.
SameInputsSameResult ==
  (Evaluated /\ IsDefined(call.previous)) => call.returned = call.previous

\* C10: the same versioned metadata and context have been evaluated again in
\* a second session that was started, with another context than the first
\* session that holds entries, between the two calls
ReevaluatedInNewSession ==
  /\ EvaluatedVersioned
  /\ IsDefined(call.previous)
  /\ globalAuditLogger = 2
  /\ Len(loggers[2].log.entries) = 1
  /\ Len(loggers[1].log.entries) >= 1
  /\ loggers[1].context # loggers[2].context
  /\ loggers[2].context # call.args.context

----------------------------------------------------------------------------
(* Audit log                                                               *)

\* a filterCompliantTools call has returned in a session with a logger
FilteredInSession ==
  pc = "idle" /\ call.op = "filterCompliantTools" /\ globalAuditLogger # 0

\* the entries of the running session's log
SessionEntries == loggers[globalAuditLogger].log.entries

IsEvaluationEntry(e) == e.event_type \in {"tool_approved", "tool_rejected"}
IsWarningEntry(e) == e.event_type = "compliance_warning"

\* the tools of the filtered list that carry metadata with a version string
AuditedTools ==
  LET tools == call.args.tools
  IN Pick(tools, {i \in DOMAIN tools : ~ReturnsEarly(tools[i].compliance)}, 1)

ToolNames(tools) == [i \in DOMAIN tools |-> tools[i].name]
EntryToolNames(entries) == [i \in DOMAIN entries |-> Val(entries[i].tool_name)]

\* C11: with the audit logger initialised, filterCompliantTools appends
\* exactly one evaluation entry (tool_approved or tool_rejected) for every
\* tool of its list, in the order of the list, tools with absent or
\* versionless metadata included.
EvaluationEntryPerTool ==
  FilteredInSession =>
    EntryToolNames(SelectSeq(SessionEntries, IsEvaluationEntry))
      = ToolNames(call.args.tools)

\* C11: a list that holds a tool without metadata and one with versionless
\* metadata has been filtered in a session, which logged fewer evaluations
\* than tools
UnauditedToolsFiltered ==
  /\ FilteredInSession
  /\ \E i, j \in DOMAIN call.args.tools :
       /\ ~IsDefined(call.args.tools[i].compliance)
       /\ IsDefined(call.args.tools[j].compliance)
       /\ ReturnsEarly(call.args.tools[j].compliance)
  /\ Len(SelectSeq(SessionEntries, IsEvaluationEntry)) < Len(call.args.tools)

\* C11 on the tools that reach the audit step: one evaluation entry for
\* every tool whose metadata declares a version string, in the order of the
\* list
EvaluationEntryPerAuditedTool ==
  FilteredInSession =>
    EntryToolNames(SelectSeq(SessionEntries, IsEvaluationEntry))
      = ToolNames(AuditedTools)

\* C12: a compliance_warning entry is appended for a tool if and only if the
\* tool is admitted with a non-empty warnings list, and the entry carries
\* exactly the warnings of the result; a tool without metadata admitted
\* under the 'warn' policy is one of these.
WarningEntryIffAdmittedWithWarnings ==
  FilteredInSession =>
    LET tools == call.args.tools
        result(i) == checkCompliance(tools[i].name, tools[i].compliance,
                                     call.args.context)
        warned == Pick(tools, {i \in DOMAIN tools :
                                 /\ result(i).compliant
                                 /\ Len(result(i).warnings) > 0}, 1)
        entries == SelectSeq(SessionEntries, IsWarningEntry)
    IN /\ EntryToolNames(entries) = ToolNames(warned)
       /\ \A i \in DOMAIN entries :
            Val(entries[i].evaluation_result).warnings
              = checkCompliance(warned[i].name, warned[i].compliance,
                                call.args.context).warnings

\* C12: a tool without metadata has been admitted with a warning in a
\* session whose log holds no compliance_warning entry
LegacyToolWarnedWithoutEntry ==
  /\ FilteredInSession
  /\ \E i \in DOMAIN Returned.compliant :
       /\ ~IsDefined(Returned.compliant[i].compliance)
       /\ Len(checkCompliance(Returned.compliant[i].name, Undefined,
                              call.args.context).warnings) > 0
  /\ Len(SelectSeq(SessionEntries, IsWarningEntry)) = 0

\* C12 on the tools that reach the audit step
WarningEntryIffAuditedWithWarnings ==
  FilteredInSession =>
    LET result(tool) == checkCompliance(tool.name, tool.compliance,
                                        call.args.context)
        warned == SelectSeq(AuditedTools,
                            LAMBDA tool : /\ result(tool).compliant
                                          /\ Len(result(tool).warnings) > 0)
        entries == SelectSeq(SessionEntries, IsWarningEntry)
    IN /\ EntryToolNames(entries) = ToolNames(warned)
       /\ \A i \in DOMAIN entries :
            Val(entries[i].evaluation_result).warnings
              = result(warned[i]).warnings

IsPrefix(s, t) == Len(s) <= Len(t) /\ SubSeq(t, 1, Len(s)) = s

\* the tools of LoggedCatalog that carry metadata, each with one of its
\* results in the shipped contexts
LoggedEvaluations ==
  {[name |-> tool.name, compliance |-> Val(tool.compliance),
    result |-> checkCompliance(tool.name, tool.compliance, context)] :
     tool \in {t \in LoggedCatalog : IsDefined(t.compliance)},
     context \in Contexts}

\* the logger after each of the five logging operations
LoggingOperations(logger) ==
  UNION {
    {logAgentInitialisation(logger, n, m) : n \in 0..1, m \in 0..1},
    {logToolEvaluation(logger, e.name, e.compliance, e.result) :
       e \in LoggedEvaluations},
    {logToolInvocation(logger, e.name, e.compliance, "input") :
       e \in LoggedEvaluations},
    {logToolInvocationBlocked(logger, tool.name, BlockedReason) :
       tool \in LoggedCatalog},
    {logComplianceWarning(logger, e.name, e.compliance, e.result.warnings) :
       e \in LoggedEvaluations}}

\* a logging operation leaves the logger as it was but for one more entry,
\* of the logger's session, at the end of the log
EveryOperationAppendsOne ==
  \A i \in DOMAIN loggers :
    \A after \in LoggingOperations(loggers[i]) :
      /\ Len(after.log.entries) = Len(loggers[i].log.entries) + 1
      /\ IsPrefix(loggers[i].log.entries, after.log.entries)
      /\ [after EXCEPT !.log.entries = loggers[i].log.entries] = loggers[i]

\* a step of the program keeps every logger, and every log as a prefix of
\* what it becomes
EntriesOnlyGrow ==
  /\ Len(loggers) <= Len(loggers')
  /\ \A i \in DOMAIN loggers :
       IsPrefix(loggers[i].log.entries, loggers'[i].log.entries)

\* C13: the audit log is append-only: each of logAgentInitialisation,
\* logToolEvaluation, logToolInvocation, logToolInvocationBlocked and
\* logComplianceWarning appends exactly one entry at the end of the log, and
\* no step removes, reorders or modifies an entry, so the entries at any time
\* are a prefix of the entries at any later time.
AppendOnlyLog == []EveryOperationAppendsOne /\ [][EntriesOnlyGrow]_vars

\* C13: a session's log holds three entries written by three different
\* logging operations
ThreeOperationsLogged ==
  /\ globalAuditLogger # 0
  /\ Len(SessionEntries) = 3
  /\ Cardinality({SessionEntries[i].event_type : i \in 1..3}) = 3

\* a step leaves every log but the running session's as it was
OnlyTheSessionLogChanges ==
  \A i \in DOMAIN loggers :
    i # globalAuditLogger' => loggers'[i] = loggers[i]

\* every entry of every log carries the session id of that log
EntriesCarrySessionId ==
  \A i \in DOMAIN loggers :
    \A k \in DOMAIN loggers[i].log.entries :
      loggers[i].log.entries[k].session_id = loggers[i].log.session_id

\* C15: once initAuditLogger has started a new session, evaluations append to
\* the new session's log alone and the entries of every earlier session stay
\* as they were; every entry's session_id is the session_id of the log that
\* holds it.
SessionsAreIsolated == []EntriesCarrySessionId /\ [][OnlyTheSessionLogChanges]_vars

\* C15: an evaluation has been logged in a second session, started after the
\* first session logged one
EvaluatedInBothSessions ==
  /\ Evaluated
  /\ globalAuditLogger = 2
  /\ \E k \in DOMAIN loggers[1].log.entries :
       IsEvaluationEntry(loggers[1].log.entries[k])
  /\ \E k \in DOMAIN loggers[2].log.entries :
       /\ IsEvaluationEntry(loggers[2].log.entries[k])
       /\ loggers[2].log.entries[k].tool_name = Def(call.args.toolName)

\* the event kinds that the logging operations write
EventKinds ==
  {"agent_initialisation", "tool_approved", "tool_rejected", "tool_invocation",
   "tool_invocation_blocked", "compliance_warning"}

\* C19: the event kind of every audit entry is one of agent_initialisation,
\* tool_approved, tool_rejected, tool_invocation, tool_invocation_blocked and
\* compliance_warning; an evaluation entry is tool_approved exactly when the
\* result it records is compliant, and tool_rejected otherwise.
EventKindMatchesResult ==
  \A i \in DOMAIN loggers :
    \A k \in DOMAIN loggers[i].log.entries :
      LET e == loggers[i].log.entries[k]
      IN /\ e.event_type \in EventKinds
         /\ IsEvaluationEntry(e) =>
              /\ IsDefined(e.evaluation_result)
              /\ (e.event_type = "tool_approved")
                   <=> Val(e.evaluation_result).compliant

\* C19: one session's log holds an approved evaluation and a
\* rejected evaluation
ApprovedAndRejectedLogged ==
  /\ globalAuditLogger # 0
  /\ \E j, k \in DOMAIN SessionEntries :
       /\ SessionEntries[j].event_type = "tool_approved"
       /\ Val(SessionEntries[j].evaluation_result).compliant
       /\ SessionEntries[k].event_type = "tool_rejected"
       /\ ~Val(SessionEntries[k].evaluation_result).compliant

RECURSIVE Flatten(_)
Flatten(lists) ==
  IF Len(lists) = 0 THEN <<>> ELSE Head(lists) \o Flatten(Tail(lists))

\* what the k-th performed evaluation appends when it is the only one of
\* its session
AppendedAlone(k) ==
  LET tool == call.args.tools[Performed[k].task]
      fresh == <<NewPecAuditLogger(loggers[1].context, 1)>>
  IN CheckComplianceCall(fresh, tool.name, tool.compliance,
                         call.args.context).loggers[1].log.entries

\* the performed evaluations that reach the audit step, in the order performed
PerformedAudited ==
  SelectSeq(Performed,
            LAMBDA p : ~ReturnsEarly(call.args.tools[p.task].compliance))

\* C14: when several tools are evaluated under one session, in whatever order
\* the evaluations take their turns, no entry is lost (the log is what each
\* evaluation appends, one evaluation after the other), the evaluation entries
\* are in the order the evaluations were performed, and a compliance_warning
\* entry comes right after the tool_approved entry of the same tool.
SerializedAppends ==
  (call.op = "evaluations") =>
    LET evaluations == SelectSeq(SessionEntries, IsEvaluationEntry)
    IN /\ SessionEntries = Flatten([k \in DOMAIN Performed |-> AppendedAlone(k)])
       /\ Len(evaluations) = Len(PerformedAudited)
       /\ \A k \in DOMAIN evaluations :
            /\ Val(evaluations[k].tool_name)
                 = call.args.tools[PerformedAudited[k].task].name
            /\ Val(evaluations[k].evaluation_result) = PerformedAudited[k].result
       /\ \A k \in DOMAIN SessionEntries :
            /\ IsWarningEntry(SessionEntries[k]) =>
                 /\ k > 1
                 /\ SessionEntries[k - 1].event_type = "tool_approved"
                 /\ SessionEntries[k - 1].tool_name = SessionEntries[k].tool_name
                 /\ Val(SessionEntries[k - 1].evaluation_result).warnings
                      = Val(SessionEntries[k].evaluation_result).warnings
            /\ ( /\ SessionEntries[k].event_type = "tool_approved"
                 /\ Len(Val(SessionEntries[k].evaluation_result).warnings) > 0 ) =>
                 /\ k < Len(SessionEntries)
                 /\ IsWarningEntry(SessionEntries[k + 1])
                 /\ SessionEntries[k + 1].tool_name = SessionEntries[k].tool_name

\* C14: three tools have been evaluated in another order than that of their
\* list; the first evaluation logged an approval and its warning, and an
\* entry of another tool follows
WarnedThenOtherToolOutOfOrder ==
  /\ call.op = "evaluations" /\ pc = "idle"
  /\ Len(call.args.tools) = 3
  /\ Performed[1].task = 3
  /\ Performed[2].task = 1
  /\ Len(SessionEntries) >= 3
  /\ SessionEntries[1].event_type = "tool_approved"
  /\ IsWarningEntry(SessionEntries[2])
  /\ IsEvaluationEntry(SessionEntries[3])
  /\ SessionEntries[3].tool_name # SessionEntries[1].tool_name

\* C16: a deployment context whose maximum_permitted or unknown_handling
\* value is outside its enumeration is rejected and never used to admit a
\* tool: no evaluation under such a context returns a compliant result.
MalformedContextNeverAdmits ==
  (Evaluated /\ IsMalformed(call.args.context)) => ~Returned.compliant

\* C16: a tool of class 'unacceptable' has been admitted, with no reason and
\* no warning, under a context whose maximum_permitted is not a risk class
UnacceptableAdmittedWithoutThreshold ==
  /\ Evaluated
  /\ call.args.context.risk_classification.maximum_permitted \notin RiskClasses
  /\ Val(call.args.compliance).ai_act_status.classification = "unacceptable"
  /\ Returned = emptyResult

\* C16, the unknown_handling half: an unassessed tool without a required
\* certification has been admitted with two warnings under a context whose
\* unknown_handling values are outside the enumeration
UnknownHandlingReadAsPermissive ==
  /\ Evaluated
  /\ call.args.context.unknown_handling.ai_act_status \notin UnknownHandling
  /\ call.args.context.unknown_handling.certifications \notin UnknownHandling
  /\ ~Val(call.args.compliance).ai_act_status.conformity_assessed
  /\ Returned.compliant
  /\ Len(Returned.warnings) = 2

\* the members that the claim adds to the European Union's
EeaOnly == {CC("N","O"), CC("I","S"), CC("L","I")}
AdequacyOnly ==
  {CC("G","B"), CC("C","H"), CC("J","P"), CC("K","R"), CC("C","A"),
   CC("N","Z"), CC("I","L"), CC("A","R"), CC("U","Y")}

\* C17: expandJurisdiction recognises 'EU', 'EEA' and 'ADEQUACY' in any
\* letter-casing; the expansion of EU is part of that of EEA, which is that
\* of EU and NO, IS, LI; the expansion of ADEQUACY is that of EEA and the nine
\* adequacy countries; any other code is returned alone, in upper case.
ExpansionOfAggregates ==
  (pc = "idle" /\ call.op = "expandJurisdiction") =>
    LET upper == ToUpperCase(call.args.code)
        members == Range(Returned)
        eu == Range(EU_COUNTRIES)
    IN /\ upper = EU => members = eu
       /\ upper = EEA =>
            /\ eu \subseteq members
            /\ members = eu \cup EeaOnly
            /\ Cardinality(members) = Cardinality(eu) + 3
       /\ upper = ADEQUACY =>
            /\ members = eu \cup EeaOnly \cup AdequacyOnly
            /\ Cardinality(members) = Cardinality(eu) + 3 + 9
       /\ upper \notin {EU, EEA, ADEQUACY} =>
            /\ Returned = <<upper>>
            /\ Len(upper) = Len(call.args.code)
            /\ \A i \in DOMAIN upper :
                 /\ upper[i] \in Range(UpperLetters)
                 /\ upper[i] \in {call.args.code[i], UpperChar(call.args.code[i])}

\* C17: 'ADEQUACY' written with lower-case letters has been expanded to the
\* 39 countries
MixedCaseAdequacyExpanded ==
  /\ pc = "idle" /\ call.op = "expandJurisdiction"
  /\ call.args.code # ADEQUACY
  /\ ToUpperCase(call.args.code) = ADEQUACY
  /\ Cardinality(Range(Returned)) = 39

\* the messages of the two presence checks
PresenceMessages ==
  {<<"Tool lacks PEC compliance metadata and legacy servers are blocked">>,
   <<"Tool lacks PEC compliance metadata (legacy server)">>,
   <<"Tool does not declare PEC version">>}

\* C20: for metadata that is present but declares no version string, under
\* the legacy policy 'block' the result is non-compliant with a fatal reason;
\* under 'warn' or 'allow' the presence check passes: it puts no reason and
\* no warning in the result.
VersionlessByPolicy ==
  EvaluatedVersionless =>
    LET policy == call.args.context.legacy_servers.policy IN
    /\ policy = "block" =>
         /\ ~Returned.compliant
         /\ Includes(Returned.reasons, <<"Tool does not declare PEC version">>)
    /\ policy \in {"warn", "allow"} =>
         /\ \A i \in DOMAIN Returned.reasons :
              Returned.reasons[i] \notin PresenceMessages
         /\ \A i \in DOMAIN Returned.warnings :
              Returned.warnings[i] \notin PresenceMessages

\* C20: metadata with an empty version string has been evaluated under the
\* policy 'warn' and admitted without a warning
VersionlessAdmittedUnderWarn ==
  /\ EvaluatedVersionless
  /\ Val(call.args.compliance).pec_version = Def("")
  /\ call.args.context.legacy_servers.policy = "warn"
  /\ Returned.compliant
  /\ Len(Returned.warnings) = 0

\* the tools that the result tables of AGENTS.md mark compliant
DocumentedCompliant(context) ==
  IF context = euDeploymentContext
    THEN {"acme_translate", "swissvault_store", "tokyoai_ocr",
          "document_summariser", "text_formatter"}
    ELSE {"medixus_analyse", "healthcare_analyser"}

\* ... and rejected
DocumentedRejected(context) ==
  IF context = euDeploymentContext
    THEN {"globalpay_fraud_check", "beijingcloud_compute", "medixus_analyse",
          "data_exporter", "healthcare_analyser"}
    ELSE {"acme_translate", "globalpay_fraud_check", "swissvault_store",
          "tokyoai_ocr", "beijingcloud_compute", "document_summariser",
          "text_formatter", "data_exporter"}

\* C18: filtering shipped tools under eu-general admits exactly acme_translate,
\* swissvault_store, tokyoai_ocr, document_summariser and text_formatter and
\* rejects globalpay_fraud_check, beijingcloud_compute, medixus_analyse,
\* data_exporter and healthcare_analyser; under us-healthcare it admits
\* exactly medixus_analyse and healthcare_analyser and rejects the other
\* eight.
DocumentedDemoOutcomes ==
  (pc = "idle" /\ call.op = "filterCompliantTools") =>
    LET tools == call.args.tools
        context == call.args.context
        rejectedTools == [i \in DOMAIN Returned.rejected |->
                            Returned.rejected[i].tool]
    IN /\ Returned.compliant
            = SelectSeq(tools, LAMBDA t : t.name \in DocumentedCompliant(context))
       /\ rejectedTools
            = SelectSeq(tools, LAMBDA t : t.name \in DocumentedRejected(context))
       /\ \A i \in DOMAIN Returned.rejected :
            Len(Returned.rejected[i].result.reasons) > 0

\* C18: the whole catalogue of ten tools has been filtered under eu-general
\* into five admitted and five rejected tools
WholeCatalogFilteredEu ==
  /\ pc = "idle" /\ call.op = "filterCompliantTools"
  /\ call.args.tools = ShippedCatalog
  /\ call.args.context = euDeploymentContext
  /\ Len(Returned.compliant) = 5
  /\ Len(Returned.rejected) = 5

\* C18: ... and under us-healthcare into two admitted and eight rejected
WholeCatalogFilteredUs ==
  /\ pc = "idle" /\ call.op = "filterCompliantTools"
  /\ call.args.tools = ShippedCatalog
  /\ call.args.context = usHealthcareContext
  /\ Len(Returned.compliant) = 2
  /\ Len(Returned.rejected) = 8

----------------------------------------------------------------------------
(* Rules one by one                                                        *)

\* how many times x is in list
Count(list, x) == Cardinality({i \in DOMAIN list : list[i] = x})

\* the metadata and the context of the evaluated call
Compliance == Val(call.args.compliance)
Context == call.args.context

\* C21: for metadata that declares a version string, a tool that is not
\* conformity assessed gets exactly one conformity message: a reason, which
\* is fatal, when unknown_handling.ai_act_status is 'strict', and a warning
\* that leaves compliant as the other rules set it when it is 'permissive' or
\* 'escalate'; an assessed tool gets no conformity message.
ConformityByHandling ==
  EvaluatedVersioned =>
    LET reasons == Count(Returned.reasons, ConformityMessage)
        warnings == Count(Returned.warnings, ConformityMessage)
        assessed ==
          checkCompliance(call.args.toolName,
                          Def([Compliance EXCEPT
                                 !.ai_act_status.conformity_assessed = TRUE]),
                          Context)
    IN IF Compliance.ai_act_status.conformity_assessed
         THEN reasons = 0 /\ warnings = 0
         ELSE /\ Context.unknown_handling.ai_act_status = "strict" =>
                   /\ reasons = 1 /\ warnings = 0
                   /\ ~Returned.compliant
                   /\ Len(Returned.reasons) = Len(assessed.reasons) + 1
                   /\ Returned.warnings = assessed.warnings
              /\ Context.unknown_handling.ai_act_status
                   \in {"permissive", "escalate"} =>
                   /\ reasons = 0 /\ warnings = 1
                   /\ Returned.compliant = assessed.compliant
                   /\ Returned.reasons = assessed.reasons
                   /\ Len(Returned.warnings) = Len(assessed.warnings) + 1

\* C21: an unassessed tool that breaks no other rule has been admitted with
\* the conformity warning under 'escalate'
UnassessedAdmittedUnderEscalate ==
  /\ EvaluatedVersioned
  /\ ~Compliance.ai_act_status.conformity_assessed
  /\ Context.unknown_handling.ai_act_status = "escalate"
  /\ Returned.compliant
  /\ Includes(Returned.warnings, ConformityMessage)

\* the tool holds none of the certifications the context asks for
LacksRequiredCertification ==
  /\ Len(Context.certifications.required_any) > 0
  /\ \A i \in DOMAIN Context.certifications.required_any :
       ~Includes(Compliance.certifications, Context.certifications.required_any[i])

\* the certification rule as stated, on the evaluated call
CertificationStated ==
  LET required_any == Context.certifications.required_any
      reasons == Count(Returned.reasons, CertificationReason(required_any))
      warnings == Count(Returned.warnings, CertificationWarning(required_any))
      handling == Context.unknown_handling.certifications
  IN IF LacksRequiredCertification
       THEN /\ handling = "strict" =>
                 reasons = 1 /\ warnings = 0 /\ ~Returned.compliant
            /\ handling \in {"permissive", "escalate"} =>
                 reasons = 0 /\ warnings = 1
       ELSE reasons = 0 /\ warnings = 0

\* C22: a certification message is produced iff required_any is non-empty and
\* the tool holds none of its members: a fatal reason when
\* unknown_handling.certifications is 'strict', a warning when it is
\* 'permissive' or 'escalate'; a tool that holds a required certification, or
\* an empty required_any, produces no certification message.
CertificationByHandling == EvaluatedMetadata => CertificationStated

\* C22: metadata without a version string and without any required
\* certification has been evaluated under 'strict' and the result holds no
\* certification message
VersionlessWithoutCertification ==
  /\ EvaluatedVersionless
  /\ LacksRequiredCertification
  /\ Context.unknown_handling.certifications = "strict"
  /\ Context.legacy_servers.policy = "warn"
  /\ Returned = emptyResult

\* C22 on metadata that declares a version string
CertificationByHandlingVersioned == EvaluatedVersioned => CertificationStated

\* C22 on versioned metadata: 'escalate' gives what 'permissive' gives
EscalateAsPermissive ==
  (EvaluatedVersioned /\ Context.unknown_handling.certifications = "escalate") =>
    Returned = checkCompliance(call.args.toolName, call.args.compliance,
                 [Context EXCEPT !.unknown_handling.certifications = "permissive"])

\* the transfer mechanisms that the context requires; none when it states no
\* GDPR requirements or no list
RequiredMechanisms ==
  IF /\ IsDefined(Context.gdpr_requirements)
     /\ IsDefined(Val(Context.gdpr_requirements).transfer_mechanisms_required)
    THEN Val(Val(Context.gdpr_requirements).transfer_mechanisms_required)
    ELSE <<>>

\* the two transfer reasons for the evaluated call
NoMechanismsReason ==
  <<"Tool declares no GDPR transfer mechanisms but context requires one of: ">>
    \o Join(RequiredMechanisms, ", ")

NoOverlapReason ==
  <<"Tool transfer mechanisms [">>
    \o Join(Compliance.gdpr.transfer_mechanisms, ", ")
    \o <<"] do not include any required mechanism: ">>
    \o Join(RequiredMechanisms, ", ")

\* the transfer rule as stated, on the evaluated call
TransferStated ==
  LET declared == Compliance.gdpr.transfer_mechanisms
      none == Count(Returned.reasons, NoMechanismsReason)
      other == Count(Returned.reasons, NoOverlapReason)
      overlap == Range(declared) \cap Range(RequiredMechanisms)
  IN IF Len(RequiredMechanisms) = 0
       THEN none = 0 /\ other = 0
       ELSE /\ none + other = (IF overlap = {} THEN 1 ELSE 0)
            /\ (none = 1) <=> (Len(declared) = 0)
            /\ (none + other = 1) => ~Returned.compliant

\* C23: when the context declares gdpr_requirements with a non-empty
\* transfer_mechanisms_required, exactly one fatal transfer reason is produced
\* iff the tool's transfer_mechanisms share no member with the required set,
\* and it is the 'declares no GDPR transfer mechanisms' message iff the tool
\* declares none; with an empty required set or without gdpr_requirements no
\* transfer reason is produced.
TransferByRequirement == EvaluatedMetadata => TransferStated

\* C23: metadata without a version string whose one mechanism is not a
\* required one has been admitted without a transfer reason
VersionlessWithoutOverlap ==
  /\ EvaluatedVersionless
  /\ Len(RequiredMechanisms) > 0
  /\ Len(Compliance.gdpr.transfer_mechanisms) = 1
  /\ Range(Compliance.gdpr.transfer_mechanisms) \cap Range(RequiredMechanisms) = {}
  /\ Returned = emptyResult

\* C23 on metadata that declares a version string
TransferByRequirementVersioned == EvaluatedVersioned => TransferStated

SpecialCategoriesReason ==
  <<"Tool processes GDPR special categories (Art 9) but deployment context prohibits this">>

\* the context says that special categories are not allowed
SpecialCategoriesDisallowed ==
  /\ IsDefined(Context.gdpr_requirements)
  /\ Val(Context.gdpr_requirements).special_categories_allowed = Def(FALSE)

\* the special-categories rule as stated, on the evaluated call
SpecialCategoriesStated ==
  LET reasons == Count(Returned.reasons, SpecialCategoriesReason)
  IN /\ reasons = (IF /\ SpecialCategoriesDisallowed
                      /\ Compliance.gdpr.special_categories_processed
                     THEN 1 ELSE 0)
     /\ reasons = 1 => ~Returned.compliant
     /\ Count(Returned.warnings, SpecialCategoriesReason) = 0

\* C24: a fatal special-categories reason is produced iff the context
\* specifies special_categories_allowed = false and the tool's
\* special_categories_processed is true; when the context leaves the setting
\* unspecified, or has no gdpr_requirements, the check passes for every tool.
SpecialCategoriesByContext == EvaluatedMetadata => SpecialCategoriesStated

\* C24: metadata without a version string that processes special categories
\* has been admitted by a context that disallows them
VersionlessSpecialCategories ==
  /\ EvaluatedVersionless
  /\ SpecialCategoriesDisallowed
  /\ Compliance.gdpr.special_categories_processed
  /\ Returned = emptyResult

\* C24 on metadata that declares a version string
SpecialCategoriesByContextVersioned == EvaluatedVersioned => SpecialCategoriesStated

\* C24 on versioned metadata: a tool that processes special categories passes
\* the check of a context that leaves the setting unspecified
SpecialCategoriesUnspecified ==
  /\ EvaluatedVersioned
  /\ Compliance.gdpr.special_categories_processed
  /\ IsDefined(Context.gdpr_requirements)
  /\ ~IsDefined(Val(Context.gdpr_requirements).special_categories_allowed)
  /\ Returned.compliant

\* the sector rule as stated, on the evaluated call
SectorStated ==
  /\ SelectSeq(Returned.reasons, IsSectorReason)
       = SectorReasonsOwed(Compliance, Context)
  /\ Len(SectorReasonsOwed(Compliance, Context)) > 0 => ~Returned.compliant
  /\ Len(SelectSeq(Returned.warnings, IsSectorReason)) = 0

\* C25: the sector reasons are exactly one for each member of the context's
\* sectors.prohibited that is also in the tool's suitable_for, each naming
\* that tag; the tool's unsuitable_for has no effect on compliant, reasons or
\* warnings.
SectorProhibition ==
  EvaluatedMetadata =>
    /\ SectorStated
    /\ Returned = checkCompliance(call.args.toolName,
                                  Def([Compliance EXCEPT !.unsuitable_for = <<>>]),
                                  Context)

\* C25: metadata without a version string that is suitable for two
\* prohibited sectors has been admitted without a sector reason
VersionlessProhibitedSectors ==
  /\ EvaluatedVersionless
  /\ Len(SectorReasonsOwed(Compliance, Context)) = 2
  /\ Returned = emptyResult

\* C25 on metadata that declares a version string
SectorProhibitionVersioned ==
  EvaluatedVersioned =>
    /\ SectorStated
    /\ Returned = checkCompliance(call.args.toolName,
                                  Def([Compliance EXCEPT !.unsuitable_for = <<>>]),
                                  Context)

\* C25, the second half alone, on all metadata: unsuitable_for has no effect
UnsuitableForIgnored ==
  EvaluatedMetadata =>
    Returned = checkCompliance(call.args.toolName,
                               Def([Compliance EXCEPT !.unsuitable_for = <<>>]),
                               Context)

\* C25 on versioned metadata: a tool that lists a prohibited sector as
\* unsuitable, and none as suitable, has been evaluated without a sector
\* reason
UnsuitableSectorNotEnforced ==
  /\ EvaluatedVersioned
  /\ \E i \in DOMAIN Context.sectors.prohibited :
       Includes(Compliance.unsuitable_for, Context.sectors.prohibited[i])
  /\ Len(SectorReasonsOwed(Compliance, Context)) = 0
  /\ Len(SelectSeq(Returned.reasons, IsSectorReason)) = 0

\* C30: a tool with versioned metadata and an empty processing_locations
\* list gets no location reason, and no reason of the location check at all,
\* under any context, whatever unknown_handling.processing_locations is,
\* 'strict' included; the result never depends on that setting.
EmptyLocationsNeverRejected ==
  EvaluatedVersioned =>
    /\ Len(Compliance.processing_locations) = 0 =>
         /\ Len(SelectSeq(Returned.reasons, IsLocationReason)) = 0
         /\ Len(Returned.reasons)
              = ViolationCount(Compliance, Context)
    /\ \A handling \in UnknownHandling :
         checkCompliance(call.args.toolName, call.args.compliance,
                         [Context EXCEPT
                            !.unknown_handling.processing_locations = handling])
           = Returned

\* C30: a tool that declares no location has been admitted without a warning
\* by a context that requires a location in the EU and is 'strict' about
\* unknown processing locations
NoLocationsAdmittedUnderStrict ==
  /\ EvaluatedVersioned
  /\ Len(Compliance.processing_locations) = 0
  /\ Len(Context.data_residency.required) > 0
  /\ Context.unknown_handling.processing_locations = "strict"
  /\ Returned = emptyResult


----------------------------------------------------------------------------
(* Reasoning trace                                                         *)

\* every entry of every log
LoggedEntries ==
  UNION {Range(loggers[i].log.entries) : i \in DOMAIN loggers}

EvaluationEntries == {e \in LoggedEntries : IsEvaluationEntry(e)}

\* the rule sections of a trace, by their heading
Sections ==
  {"--- Location Check ---", "--- Risk Classification Check ---",
   "--- Conformity Assessment Check ---", "--- GDPR Transfer Mechanism Check ---",
   "--- Special Categories Check ---", "--- Certification Check ---",
   "--- Sector Check ---"}

\* the last line of a section: the line before the empty line that ends it
VerdictLine(trace, section) ==
  LET heading == CHOOSE i \in DOMAIN trace : trace[i] = <<section>>
      end == CHOOSE i \in DOMAIN trace :
               /\ i > heading
               /\ trace[i] = <<"">>
               /\ \A j \in (heading + 1)..(i - 1) : trace[j] # <<"">>
  IN trace[end - 1]

VerdictOf(line) ==
  CASE line[1] = "FAIL: " -> "FAIL"
    [] line[1] = "WARNING: Tool has not undergone conformity assessment" -> "WARNING"
    [] line[1] \in {"PASS: All processing locations acceptable",
                    "PASS: Risk classification within limits",
                    "PASS: Conformity assessment complete",
                    "PASS: Transfer mechanisms acceptable",
                    "PASS: Special categories handling acceptable",
                    "PASS: Certification requirements met",
                    "PASS: No prohibited sector conflicts"} -> "PASS"
    [] OTHER -> "none"

\* the section of the rule that writes a reason or a warning: each rule
\* begins its messages with words of its own
SectionOf(message) ==
  CASE message[1] = "Processing location '" -> "--- Location Check ---"
    [] message[1] = "Tool risk classification '" -> "--- Risk Classification Check ---"
    [] message = ConformityMessage -> "--- Conformity Assessment Check ---"
    [] message[1] \in {"Tool declares no GDPR transfer mechanisms but context requires one of: ",
                       "Tool transfer mechanisms ["} ->
         "--- GDPR Transfer Mechanism Check ---"
    [] message[1] = "Tool processes GDPR special categories (Art 9) but deployment context prohibits this" ->
         "--- Special Categories Check ---"
    [] message[1] \in {"Tool lacks required certifications. Required one of: ",
                       "Tool lacks preferred certifications: "} ->
         "--- Certification Check ---"
    [] message[1] = "Tool is suitable for prohibited sector: '" -> "--- Sector Check ---"
    [] OTHER -> "none"

\* the messages of a list that the rule of a section wrote
Of(messages, section) ==
  SelectSeq(messages, LAMBDA m : SectionOf(m) = section)

\* the verdict a section owes to a result
VerdictOwed(result, section) ==
  IF Len(Of(result.reasons, section)) > 0 THEN "FAIL"
  ELSE IF Len(Of(result.warnings, section)) > 0 THEN "WARNING"
  ELSE "PASS"

\* a context that prohibits no sector whose tag holds a searched word
OrdinaryTags(context) ==
  \A i \in DOMAIN context.sectors.prohibited :
    context.sectors.prohibited[i] \notin DOMAIN NeedlesIn

\* C26 (trace verdict per category): in every evaluation trace each of the
\* seven rule sections ends with the verdict owed to the result: FAIL when a
\* reason of that rule is in the result, WARNING when only a warning of that
\* rule is, PASS when neither is.
VerdictPerCategory ==
  \A e \in EvaluationEntries :
    \A section \in Sections :
      VerdictOf(VerdictLine(e.reasoning_trace, section))
        = VerdictOwed(Val(e.evaluation_result), section)

\* a tool admitted with the missing-certification warning whose
\* certification section ends with PASS
AdmittedWithWarningCertificationPass ==
  \E e \in EvaluationEntries :
    /\ e.event_type = "tool_approved"
    /\ Len(Of(Val(e.evaluation_result).warnings, "--- Certification Check ---")) > 0
    /\ VerdictLine(e.reasoning_trace, "--- Certification Check ---")
         = <<"PASS: Certification requirements met">>

\* the other six sections end with the verdict owed when the prohibited
\* sectors carry ordinary tags
VerdictPerCategoryButCertification ==
  \A e \in EvaluationEntries :
    OrdinaryTags(call.args.context) =>
      \A section \in Sections \ {"--- Certification Check ---"} :
        VerdictOf(VerdictLine(e.reasoning_trace, section))
          = VerdictOwed(Val(e.evaluation_result), section)

\* the certification section never ends with WARNING
CertificationNeverWarning ==
  \A e \in EvaluationEntries :
    VerdictOf(VerdictLine(e.reasoning_trace, "--- Certification Check ---"))
      \in {"FAIL", "PASS"}

\* a conformity warning is reported as WARNING
ConformityWarningReported ==
  \E e \in EvaluationEntries :
    /\ Includes(Val(e.evaluation_result).warnings, ConformityMessage)
    /\ VerdictOf(VerdictLine(e.reasoning_trace,
                             "--- Conformity Assessment Check ---")) = "WARNING"


\* the deployment-context snapshot an entry owes to a context
SnapshotOf(context) ==
  [governing_law |-> context.governing_law,
   jurisdiction  |-> context.jurisdiction,
   max_risk      |-> context.risk_classification.maximum_permitted]

\* the lines of a trace that quote a value of the context
ContextLines(trace) ==
  SelectSeq(trace,
            LAMBDA line :
              line[1] \in {"Context required locations: ",
                           "Context prohibited locations: ",
                           "Maximum permitted: ",
                           "Context required mechanisms: ",
                           "Context allows special categories: ",
                           "Context required (any): ",
                           "Context prohibited sectors: "})

\* the same lines written from a given context
ContextLinesOf(context, e) ==
  ContextLines(buildEvaluationTrace([context |-> context], Val(e.tool_name),
                                    Val(e.compliance_metadata),
                                    Val(e.evaluation_result)))

\* C28 (entries describe the context used): for every tool_approved or
\* tool_rejected entry the deployment-context snapshot and the context values
\* quoted in the reasoning trace are those of the context passed to the
\* checkCompliance call that produced the entry's evaluation result, also
\* when that context is not the one the logger was initialised with.
EntryDescribesPassedContext ==
  \A e \in EvaluationEntries :
    /\ Val(e.evaluation_result) = Returned
    /\ e.deployment_context = SnapshotOf(call.args.context)
    /\ ContextLines(e.reasoning_trace) = ContextLinesOf(call.args.context, e)

\* an evaluation under one context logged with the snapshot of another
EvaluatedUnderOtherContext ==
  \E e \in EvaluationEntries :
    /\ Val(e.evaluation_result) = Returned
    /\ call.args.context.governing_law = "EU"
    /\ e.deployment_context.governing_law = "US"
    /\ e.deployment_context.max_risk = "high"

\* what the entry describes is the context the logger was initialised with
EntryDescribesLoggerContext ==
  \A i \in DOMAIN loggers :
    \A e \in Range(loggers[i].log.entries) :
      IsEvaluationEntry(e) =>
        /\ e.deployment_context = SnapshotOf(loggers[i].context)
        /\ ContextLines(e.reasoning_trace) = ContextLinesOf(loggers[i].context, e)

\* and the context passed when the two are the same
EntryDescribesPassedContextWhenSame ==
  \A e \in EvaluationEntries :
    loggers[globalAuditLogger].context = call.args.context =>
      /\ e.deployment_context = SnapshotOf(call.args.context)
      /\ ContextLines(e.reasoning_trace) = ContextLinesOf(call.args.context, e)


\* the FAIL line a section owes to a result: the reasons its rule wrote
FailLineOwed(result, section) ==
  IF Len(Of(result.reasons, section)) > 0
    THEN <<"FAIL: ">> \o JoinText(Of(result.reasons, section), "; ")
    ELSE <<>>

\* the FAIL line of a section, or nothing when it ends otherwise
FailLine(trace, section) ==
  IF VerdictOf(VerdictLine(trace, section)) = "FAIL"
    THEN VerdictLine(trace, section)
    ELSE <<>>

\* C29 (exact attribution of reasons): in every evaluation trace each reason
\* of the result stands in the FAIL line of exactly one section, the section
\* of the rule that wrote it, whatever location codes, sector tags and
\* certification names the reasons quote: the FAIL line of a section lists
\* the reasons of its rule and no others.
ExactAttribution ==
  \A e \in EvaluationEntries :
    \A section \in Sections :
      FailLine(e.reasoning_trace, section)
        = FailLineOwed(Val(e.evaluation_result), section)

\* a sector reason that quotes the tag 'certification_services' stands in
\* the FAIL line of the certification section of a tool that holds a
\* required certification
SectorReasonInCertificationSection ==
  \E e \in EvaluationEntries :
    /\ Of(Val(e.evaluation_result).reasons, "--- Certification Check ---") = <<>>
    /\ FailLine(e.reasoning_trace, "--- Certification Check ---")
         = <<"FAIL: ">> \o SectorReason("certification_services")
    /\ FailLine(e.reasoning_trace, "--- Sector Check ---")
         = <<"FAIL: ">> \o SectorReason("certification_services")

\* the attribution is exact when the prohibited sectors carry ordinary tags
ExactAttributionOrdinaryTags ==
  \A e \in EvaluationEntries :
    OrdinaryTags(call.args.context) =>
      \A section \in Sections :
        FailLine(e.reasoning_trace, section)
          = FailLineOwed(Val(e.evaluation_result), section)

\* no reason is dropped from every section
NoReasonDropped ==
  \A e \in EvaluationEntries :
    \A i \in DOMAIN Val(e.evaluation_result).reasons :
      \E needle \in TraceNeedles :
        StringIncludes(Val(e.evaluation_result).reasons[i], needle)


----------------------------------------------------------------------------
(* Discovered tools                                                        *)

Demonstrated == pc = "idle" /\ call.op = "runRealMcpServerDemo"

\* the tools connectToMcpServer found
Discovered == Val(call.args.connection).tools

DiscoveredNames == [i \in DOMAIN Discovered |-> Discovered[i].name]

\* the names in the two buckets of the demonstration
AdmittedNames ==
  [i \in DOMAIN Returned.compliant |-> Returned.compliant[i].name]

RejectedNames ==
  [i \in DOMAIN Returned.rejected |-> Returned.rejected[i].tool.name]

\* C27 (tools without metadata are filtered too): every discovered tool
\* stands in exactly one of the two buckets of the filter, and a tool whose
\* description carries no PEC suffix or a malformed one (metadata parsed as
\* absent) stands in the bucket legacy_servers.policy gives it: rejected
\* under 'block', admitted otherwise.
EveryDiscoveredToolBucketed ==
  Demonstrated =>
    \A i \in DOMAIN Discovered :
      /\ Count(AdmittedNames \o RejectedNames, Discovered[i].name)
           = Count(DiscoveredNames, Discovered[i].name)
      /\ ~IsDefined(Discovered[i].compliance) =>
           IF call.args.context.legacy_servers.policy = "block"
             THEN Includes(RejectedNames, Discovered[i].name)
             ELSE Includes(AdmittedNames, Discovered[i].name)

\* a tool without a PEC suffix, discovered next to a tool with one, stands
\* in neither bucket
SuffixlessToolInNoBucket ==
  /\ Demonstrated
  /\ Returned.totalCompliant + Returned.totalRejected = 1
  /\ \E i \in DOMAIN Discovered :
       /\ ~IsDefined(Discovered[i].compliance)
       /\ call.args.toolsets[i].description \in
            {<<"Summarises documents into concise overviews.">>,
             <<"Exports data to external storage.">>}
       /\ ~Includes(AdmittedNames \o RejectedNames, Discovered[i].name)

\* the discovered tools with metadata stand in exactly one bucket each
DiscoveredWithMetadataBucketed ==
  Demonstrated =>
    /\ Returned.totalCompliant + Returned.totalRejected
         = Len(SelectSeq(Discovered, LAMBDA t : IsDefined(t.compliance)))
    /\ \A i \in DOMAIN Discovered :
         IsDefined(Discovered[i].compliance) =>
           Count(AdmittedNames \o RejectedNames, Discovered[i].name)
             = Cardinality({j \in DOMAIN Discovered :
                              /\ Discovered[j].name = Discovered[i].name
                              /\ IsDefined(Discovered[j].compliance)})

\* no tool without metadata reaches the filter
MetadataLessNeverFiltered ==
  Demonstrated =>
    /\ \A i \in DOMAIN Returned.compliant : IsDefined(Returned.compliant[i].compliance)
    /\ \A i \in DOMAIN Returned.rejected :
         IsDefined(Returned.rejected[i].tool.compliance)

\* metadata is parsed from the suffix buildPecDescription writes and from
\* no other description
ParsedFromWellFormedSuffixOnly ==
  pc # "ready" =>
    \A i \in DOMAIN Discovered :
      LET description == call.args.toolsets[i].description
      IN IsDefined(Discovered[i].compliance)
           <=> /\ Len(description) = 5
               /\ description[4] # UnquotedJson

\* nothing is filtered and nothing is logged when no discovered tool has metadata
NothingFilteredWithoutMetadata ==
  /\ Demonstrated
  /\ Len(Discovered) = MaxDiscovered
  /\ \A i \in DOMAIN Discovered : ~IsDefined(Discovered[i].compliance)
  /\ Returned.totalCompliant = 0 /\ Returned.totalRejected = 0
  /\ loggers[1].log.entries = <<>>

=============================================================================
